---- MODULE Spec2Model ----
(***************************************************************************)
(* Host-side remote-control agent (src/index.js, lines 1-767): the session *)
(* lifecycle, the capture scheduler, the frame emitter, the display        *)
(* resolver and the input bridge, as a state machine.                      *)
(*                                                                         *)
(* Strings are sequences of one-character strings, so that trim() is       *)
(* computed and the empty string is <<>>.  An optional value (a payload    *)
(* field that may be undefined, a nullable handle) is <<>> when absent and *)
(* <<v>> when present.  Time is in milliseconds.                           *)
(***************************************************************************)
EXTENDS Integers, Sequences, FiniteSets, TLC

VARIABLES
  config,                  \* the configuration resolved at start-up (immutable)
  now,                     \* Date.now()
  activeSessionId,
  captureTimer,            \* 0 (null) or the id of the timer last armed
  captureLoopRunning,
  captureInProgress,
  inputBridge,             \* <<>> (null) or <<child process: killed, exitCode, stdin>>
  inputBridgeStopping,
  resolvedDisplayId,
  resolvedDisplayBounds,   \* <<>> (null) or <<[left, top, width, height]>>
  displayResolved,
  lastInputAt,
  lastTypingAt,
  slowCaptureBackoffUntil,
  timers,                  \* the runtime's pending setTimeout callbacks
  captures,                \* the sendFrame invocations awaiting a promise
  listDisplays,            \* who awaits screenshot.listDisplays(): "none", "bridge", "capture"
  bridgeStart,             \* startInputBridge: "skipped", "resolving", "done"
  effectiveFps,            \* scheduleNextCapture's local effectiveFps in the last step, 0 if not called
  lastEvent,               \* the event handled by the last step and its payload
  socketOut,               \* what the last step handed to socket.emit
  bridgeOut,               \* what the last step wrote to the bridge's stdin
  processExited,           \* process.exit was called
  cursorPos                \* the bridge script's last SetCursorPos(x, y): <<>> or <<<<x, y>>>>

vars == <<config, now, activeSessionId, captureTimer, captureLoopRunning,
          captureInProgress, inputBridge, inputBridgeStopping, resolvedDisplayId,
          resolvedDisplayBounds, displayResolved, lastInputAt, lastTypingAt,
          slowCaptureBackoffUntil, timers, captures, listDisplays, bridgeStart,
          effectiveFps, lastEvent, socketOut, bridgeOut, processExited, cursorPos>>

----------------------------------------------------------------------------
(* Bounds of the model. *)

\* The clock starts at BootTime and advances at most MaxClockSteps seconds.
MaxClockSteps == 1
BootTime == 5000

(* Program constants. *)
MAX_FRAME_BASE64_LENGTH == 800000
SlowCaptureBackoffMs == 1600
BusyRetryDelayMs == 60
MinCaptureDelayMs == 80

----------------------------------------------------------------------------
(* Values. *)

None == <<>>
Some(v) == <<v>>
EmptyString == <<>>

Max(a, b) == IF a >= b THEN a ELSE b
Min(a, b) == IF a <= b THEN a ELSE b

IsWhitespace(c) == c = " "

RECURSIVE TrimStart(_)
TrimStart(s) ==
  IF s # <<>> /\ IsWhitespace(Head(s)) THEN TrimStart(Tail(s)) ELSE s

RECURSIVE TrimEnd(_)
TrimEnd(s) ==
  IF s # <<>> /\ IsWhitespace(s[Len(s)]) THEN TrimEnd(SubSeq(s, 1, Len(s) - 1)) ELSE s

\* String(value || "").trim(): an absent (undefined, null) value is "".
TrimmedString(field) ==
  IF field = None THEN EmptyString ELSE TrimEnd(TrimStart(field[1]))

\* Number.isFinite(Number(v)) ? Number(v) : fallback, for an environment value
\* that is unset (None) or a number.
EnvNumber(field, fallback) == IF field = None THEN fallback ELSE field[1]

----------------------------------------------------------------------------
(* Configuration: index.js 316-346. *)

hostId == <<"h">>

ResolveConfig(env) ==
  LET base   == EnvNumber(env.REMOTE_FPS, 6)
      minF   == EnvNumber(env.REMOTE_MIN_FPS, Max(1, Min(3, base)))
      inputF == EnvNumber(env.REMOTE_ACTIVE_INPUT_FPS, Max(minF, Min(3, base)))
      typF   == EnvNumber(env.REMOTE_TYPING_FPS, Max(1, Min(2, inputF)))
  IN [ baseFps |-> base,
       minFps |-> minF,
       inputFps |-> inputF,
       typingFps |-> typF,
       inputWindowMs |-> EnvNumber(env.REMOTE_INPUT_WINDOW_MS, 1200),
       typingWindowMs |-> EnvNumber(env.REMOTE_TYPING_WINDOW_MS, 2200),
       slowCaptureThresholdMs |-> EnvNumber(env.REMOTE_SLOW_CAPTURE_MS, 450),
       performanceMode |-> IF env.REMOTE_PERF_MODE = None THEN "auto"
                           ELSE env.REMOTE_PERF_MODE[1],
       configuredDisplayId |-> TrimmedString(env.REMOTE_DISPLAY_ID) ]

baseFps == config.baseFps
minFps == config.minFps
inputFps == config.inputFps
typingFps == config.typingFps
inputWindowMs == config.inputWindowMs
typingWindowMs == config.typingWindowMs
slowCaptureThresholdMs == config.slowCaptureThresholdMs
performanceMode == config.performanceMode
configuredDisplayId == config.configuredDisplayId

DefaultEnv ==
  [ REMOTE_FPS |-> None, REMOTE_MIN_FPS |-> None, REMOTE_ACTIVE_INPUT_FPS |-> None,
    REMOTE_TYPING_FPS |-> None, REMOTE_INPUT_WINDOW_MS |-> None,
    REMOTE_TYPING_WINDOW_MS |-> None, REMOTE_SLOW_CAPTURE_MS |-> None,
    REMOTE_PERF_MODE |-> None, REMOTE_DISPLAY_ID |-> None ]

\* The environments the agent is started in.
Environments ==
  { DefaultEnv,
    [DefaultEnv EXCEPT !.REMOTE_PERF_MODE = Some("fixed"), !.REMOTE_FPS = Some(30),
                       !.REMOTE_DISPLAY_ID = Some(<<"2">>)] }

----------------------------------------------------------------------------
(* The module's mutable state as one record, so that a handler's calls      *)
(* compose: each function below maps the state before the call to the state *)
(* after it.                                                                *)

Cur ==
  [ activeSessionId |-> activeSessionId,
    captureTimer |-> captureTimer,
    captureLoopRunning |-> captureLoopRunning,
    captureInProgress |-> captureInProgress,
    inputBridge |-> inputBridge,
    inputBridgeStopping |-> inputBridgeStopping,
    resolvedDisplayId |-> resolvedDisplayId,
    resolvedDisplayBounds |-> resolvedDisplayBounds,
    displayResolved |-> displayResolved,
    lastInputAt |-> lastInputAt,
    lastTypingAt |-> lastTypingAt,
    slowCaptureBackoffUntil |-> slowCaptureBackoffUntil,
    timers |-> timers,
    captures |-> captures,
    listDisplays |-> listDisplays,
    bridgeStart |-> bridgeStart,
    effectiveFps |-> 0,
    socketOut |-> <<>>,
    bridgeOut |-> <<>>,
    logged |-> <<>>,       \* the errors the step caught and logged
    uncaught |-> FALSE ]   \* an exception left the handler

Becomes(s) ==
  /\ activeSessionId' = s.activeSessionId
  /\ captureTimer' = s.captureTimer
  /\ captureLoopRunning' = s.captureLoopRunning
  /\ captureInProgress' = s.captureInProgress
  /\ inputBridge' = s.inputBridge
  /\ inputBridgeStopping' = s.inputBridgeStopping
  /\ resolvedDisplayId' = s.resolvedDisplayId
  /\ resolvedDisplayBounds' = s.resolvedDisplayBounds
  /\ displayResolved' = s.displayResolved
  /\ lastInputAt' = s.lastInputAt
  /\ lastTypingAt' = s.lastTypingAt
  /\ slowCaptureBackoffUntil' = s.slowCaptureBackoffUntil
  /\ timers' = s.timers
  /\ captures' = s.captures
  /\ listDisplays' = s.listDisplays
  /\ bridgeStart' = s.bridgeStart
  /\ effectiveFps' = s.effectiveFps
  /\ socketOut' = s.socketOut
  /\ bridgeOut' = s.bridgeOut

----------------------------------------------------------------------------
(* The runtime's timers: setTimeout and clearTimeout. *)

NoTimer == 0

TimerIds(q) == { q[i].id : i \in 1..Len(q) }

\* A handle no pending timer uses.
FreshTimerId(q) == CHOOSE n \in 1..(Len(q) + 1) : n \notin TimerIds(q)

RECURSIVE WithoutTimer(_, _)
WithoutTimer(q, id) ==
  IF q = <<>> THEN <<>>
  ELSE IF Head(q).id = id THEN WithoutTimer(Tail(q), id)
  ELSE <<Head(q)>> \o WithoutTimer(Tail(q), id)

RemoveAt(q, i) == SubSeq(q, 1, i - 1) \o SubSeq(q, i + 1, Len(q))

----------------------------------------------------------------------------
(* The capture scheduler: index.js 494-540, 631-636, 678-681. *)

normalizedBaseFps == Max(1, baseFps)
normalizedMinFps == Max(1, Min(minFps, normalizedBaseFps))
\* normalizedInputFps as it would be without the bound by the base rate.
normalizedInputFps_Unbounded == Max(normalizedMinFps, inputFps)

normalizedInputFps == Max(normalizedMinFps, Min(inputFps, normalizedBaseFps))
normalizedTypingFps == Max(1, Min(typingFps, normalizedInputFps))

\* getEffectiveCaptureFps as it would be without the test of the performance mode.
getEffectiveCaptureFps_IgnoresMode(s) ==
  IF now - s.lastTypingAt <= typingWindowMs THEN normalizedTypingFps
  ELSE IF now - s.lastInputAt <= inputWindowMs THEN normalizedInputFps
  ELSE IF now <= s.slowCaptureBackoffUntil THEN normalizedInputFps
  ELSE normalizedBaseFps

\* getEffectiveCaptureFps as it would be without the test of the backoff.
getEffectiveCaptureFps_NoBackoff(s) ==
  IF performanceMode # "auto" THEN normalizedBaseFps
  ELSE IF now - s.lastTypingAt <= typingWindowMs THEN normalizedTypingFps
  ELSE IF now - s.lastInputAt <= inputWindowMs THEN normalizedInputFps
  ELSE normalizedBaseFps

\* getEffectiveCaptureFps as it would be if it tested the input window first.
getEffectiveCaptureFps_InputFirst(s) ==
  IF performanceMode # "auto" THEN normalizedBaseFps
  ELSE IF now - s.lastInputAt <= inputWindowMs THEN normalizedInputFps
  ELSE IF now - s.lastTypingAt <= typingWindowMs THEN normalizedTypingFps
  ELSE IF now <= s.slowCaptureBackoffUntil THEN normalizedInputFps
  ELSE normalizedBaseFps

getEffectiveCaptureFps(s) ==
  IF performanceMode # "auto" THEN normalizedBaseFps
  ELSE IF now - s.lastTypingAt <= typingWindowMs THEN normalizedTypingFps
  ELSE IF now - s.lastInputAt <= inputWindowMs THEN normalizedInputFps
  ELSE IF now <= s.slowCaptureBackoffUntil THEN normalizedInputFps
  ELSE normalizedBaseFps

\* Number(delayMs) for the argument of scheduleNextCapture, which is null (its
\* default, None here) or a number: Number(null) is 0.
NumberOfDelay(delayMs) == IF delayMs = None THEN 0 ELSE delayMs[1]

\* scheduleNextCapture as it would be without clearTimeout on the pending timer.
scheduleNextCapture_NoClear(s, delayMs) ==
  IF ~s.captureLoopRunning \/ s.activeSessionId = EmptyString THEN s
  ELSE
    LET fps == getEffectiveCaptureFps(s)
        computedDelay == Max(MinCaptureDelayMs, 1000 \div Max(1, fps))
        nextDelay == Max(0, NumberOfDelay(delayMs))
        id == FreshTimerId(s.timers)
    IN [s EXCEPT
          !.effectiveFps = fps,
          !.timers = Append(s.timers,
                            [id |-> id, due |-> now + nextDelay, delay |-> nextDelay,
                             computed |-> computedDelay]),
          !.captureTimer = id]

\* scheduleNextCapture as it would be without its first test.
scheduleNextCapture_NoGuard(s, delayMs) ==
  LET cleared == IF s.captureTimer # NoTimer
                 THEN [s EXCEPT !.timers = WithoutTimer(s.timers, s.captureTimer),
                                !.captureTimer = NoTimer]
                 ELSE s
      fps == getEffectiveCaptureFps(cleared)
      computedDelay == Max(MinCaptureDelayMs, 1000 \div Max(1, fps))
      nextDelay == Max(0, NumberOfDelay(delayMs))
      id == FreshTimerId(cleared.timers)
  IN [cleared EXCEPT
        !.effectiveFps = fps,
        !.timers = Append(cleared.timers,
                          [id |-> id, due |-> now + nextDelay, delay |-> nextDelay,
                           computed |-> computedDelay]),
        !.captureTimer = id]

scheduleNextCapture(s, delayMs) ==
  IF ~s.captureLoopRunning \/ s.activeSessionId = EmptyString THEN s
  ELSE
    LET cleared == IF s.captureTimer # NoTimer
                   THEN [s EXCEPT !.timers = WithoutTimer(s.timers, s.captureTimer),
                                  !.captureTimer = NoTimer]
                   ELSE s
        fps == getEffectiveCaptureFps(cleared)
        computedDelay == Max(MinCaptureDelayMs, 1000 \div Max(1, fps))
        \* Number.isFinite(Number(delayMs)) holds of null and of every number
        nextDelay == Max(0, NumberOfDelay(delayMs))
        id == FreshTimerId(cleared.timers)
    IN [cleared EXCEPT
          !.effectiveFps = fps,
          !.timers = Append(cleared.timers,
                            [id |-> id, due |-> now + nextDelay, delay |-> nextDelay,
                             computed |-> computedDelay]),
          !.captureTimer = id]

\* stopCaptureLoop as it would be if it flipped the flag instead of clearing it.
stopCaptureLoop_Toggles(s) ==
  LET stopped == [s EXCEPT !.captureLoopRunning = ~s.captureLoopRunning]
  IN IF stopped.captureTimer = NoTimer THEN stopped
     ELSE [stopped EXCEPT !.timers = WithoutTimer(stopped.timers, stopped.captureTimer),
                          !.captureTimer = NoTimer]

\* stopCaptureLoop as it would be if it only cancelled the timer.
stopCaptureLoop_KeepsRunning(s) ==
  IF s.captureTimer = NoTimer THEN s
  ELSE [s EXCEPT !.timers = WithoutTimer(s.timers, s.captureTimer),
                 !.captureTimer = NoTimer]

\* stopCaptureLoop as it would be if it only cleared the flag.
stopCaptureLoop_KeepsTimer(s) == [s EXCEPT !.captureLoopRunning = FALSE]

stopCaptureLoop(s) ==
  LET stopped == [s EXCEPT !.captureLoopRunning = FALSE]
  IN IF stopped.captureTimer = NoTimer THEN stopped
     ELSE [stopped EXCEPT !.timers = WithoutTimer(stopped.timers, stopped.captureTimer),
                          !.captureTimer = NoTimer]

\* startCaptureLoop as it would be if it left a running loop alone.
startCaptureLoop_OnlyWhenStopped(s) ==
  IF s.captureLoopRunning THEN s
  ELSE scheduleNextCapture([s EXCEPT !.captureLoopRunning = TRUE], Some(0))

\* startCaptureLoop as it would be if it only set the flag.
startCaptureLoop_NoSchedule(s) == [s EXCEPT !.captureLoopRunning = TRUE]

startCaptureLoop(s) ==
  scheduleNextCapture([s EXCEPT !.captureLoopRunning = TRUE], Some(0))

----------------------------------------------------------------------------
(* The display resolver: index.js 407-492. *)

\* A display's raw numeric field is [finite |-> whether Number(field) is a finite
\* number, value |-> that number]; undefined, NaN and Infinity are not finite.
Finite(n) == [finite |-> TRUE, value |-> n]
NotFinite == [finite |-> FALSE, value |-> 0]

toFiniteNumber(value) == IF value.finite THEN Some(value.value) ELSE None

\* toDisplayBounds as it would be without the test of the width and the height.
toDisplayBounds_NoSizeTest(display) ==
  LET left == toFiniteNumber(display.left)
      top == toFiniteNumber(display.top)
      width == toFiniteNumber(display.width)
      height == toFiniteNumber(display.height)
  IN IF left = None \/ top = None \/ width = None \/ height = None THEN None
     ELSE Some([left |-> left[1], top |-> top[1], width |-> width[1], height |-> height[1]])

toDisplayBounds(display) ==
  LET left == toFiniteNumber(display.left)
      top == toFiniteNumber(display.top)
      width == toFiniteNumber(display.width)
      height == toFiniteNumber(display.height)
  IN IF left = None \/ top = None \/ width = None \/ height = None THEN None
     ELSE IF width[1] <= 0 \/ height[1] <= 0 THEN None
     ELSE Some([left |-> left[1], top |-> top[1], width |-> width[1], height |-> height[1]])

\* displays.map(id := String(id || "").trim()).filter(id non-empty)
RECURSIVE normalizedDisplays(_)
normalizedDisplays(displays) ==
  IF displays = <<>> THEN <<>>
  ELSE LET d == [Head(displays) EXCEPT !.id = TrimmedString(Head(displays).id)]
       IN IF d.id = EmptyString THEN normalizedDisplays(Tail(displays))
          ELSE <<d>> \o normalizedDisplays(Tail(displays))

\* The least index of a non-empty set of indices: Array.prototype.find returns the
\* first element that passes its test.
FirstIndex(indices) == CHOOSE i \in indices : \A j \in indices : i <= j

\* The selection as it would be if the display at the origin came before the
\* configured one.
selectDisplay_OriginFirst(displays) ==
  LET normalized == normalizedDisplays(displays)
      configuredAt == { i \in 1..Len(normalized) : normalized[i].id = configuredDisplayId }
      originAt == { i \in 1..Len(normalized) :
                      normalized[i].left = Finite(0) /\ normalized[i].top = Finite(0) }
  IN IF originAt # {} THEN Some(normalized[FirstIndex(originAt)])
     ELSE IF configuredDisplayId # EmptyString /\ configuredAt # {}
     THEN Some(normalized[FirstIndex(configuredAt)])
     ELSE IF normalized # <<>> THEN Some(normalized[1])
     ELSE None

selectDisplay(displays) ==
  LET normalized == normalizedDisplays(displays)
      configuredAt == { i \in 1..Len(normalized) : normalized[i].id = configuredDisplayId }
      originAt == { i \in 1..Len(normalized) :
                      normalized[i].left = Finite(0) /\ normalized[i].top = Finite(0) }
  IN IF configuredDisplayId # EmptyString /\ configuredAt # {}
     THEN Some(normalized[FirstIndex(configuredAt)])
     ELSE IF originAt # {} THEN Some(normalized[FirstIndex(originAt)])
     ELSE IF normalized # <<>> THEN Some(normalized[1])
     ELSE None

\* resolveDisplayId as it would be without the displayResolved test: every call
\* enumerates.
resolveDisplayIdCall_NoMemo(s, caller) ==
  [s EXCEPT !.displayResolved = TRUE, !.listDisplays = caller]

\* resolveDisplayId up to its await: the caller either gets resolvedDisplayId at
\* once or starts the enumeration and waits for it.
resolveDisplayIdCall(s, caller) ==
  IF s.displayResolved THEN s
  ELSE [s EXCEPT !.displayResolved = TRUE, !.listDisplays = caller]

\* resolveDisplayId as it would be if a failed enumeration cleared the display id.
resolveDisplayIdSettled_FailureClearsId(s, result) ==
  IF result.ok
  THEN LET selectedDisplay == IF result.displays # <<>>
                              THEN selectDisplay(result.displays) ELSE None
       IN IF selectedDisplay # None
          THEN [s EXCEPT !.resolvedDisplayId = selectedDisplay[1].id,
                         !.resolvedDisplayBounds = toDisplayBounds(selectedDisplay[1])]
          ELSE s
  ELSE [s EXCEPT !.resolvedDisplayId = EmptyString]

\* resolveDisplayId after screenshot.listDisplays() settled with result.
resolveDisplayIdSettled(s, result) ==
  IF result.ok
  THEN LET selectedDisplay == IF result.displays # <<>>
                              THEN selectDisplay(result.displays) ELSE None
       IN IF selectedDisplay # None
          THEN [s EXCEPT !.resolvedDisplayId = selectedDisplay[1].id,
                         !.resolvedDisplayBounds = toDisplayBounds(selectedDisplay[1])]
          ELSE s
  ELSE IF configuredDisplayId # EmptyString
       THEN [s EXCEPT !.resolvedDisplayId = configuredDisplayId]
       ELSE s

----------------------------------------------------------------------------
(* The input bridge: index.js 542-629. *)

\* The child process object spawn() returns and its stdin stream; the runtime
\* updates exitCode and the stream's flags.
OpenStream == [destroyed |-> FALSE, writableEnded |-> FALSE, writable |-> TRUE]
DestroyedStream == [destroyed |-> TRUE, writableEnded |-> FALSE, writable |-> FALSE]

SpawnedBridge == [killed |-> FALSE, exitCode |-> None, stdin |-> Some(OpenStream)]

\* The exit code the runtime gives a child it could not spawn (a negative errno).
SpawnErrorCode == 0 - 2

stopInputBridge(s) ==
  IF s.inputBridge = None THEN s
  ELSE [s EXCEPT !.inputBridgeStopping = TRUE, !.inputBridge = None]

\* The key under which the display bounds travel to the bridge.
SideChannelKey == "__display"

\* { ...event, __display: bounds } as it would be if the event's own fields came
\* last: an event's own __display would win.
WithDisplay_OwnKeyWins(event, bounds) ==
  [ key \in DOMAIN event \cup { SideChannelKey } |->
      IF key \in DOMAIN event THEN event[key] ELSE bounds ]

\* { ...event, __display: bounds }: an object is a function from its keys, the
\* spread copies the event's own fields and the key written last wins.
WithDisplay(event, bounds) ==
  [ key \in DOMAIN event \cup { SideChannelKey } |->
      IF key = SideChannelKey THEN bounds ELSE event[key] ]

\* sendToInputBridge as it would be if it wrote every line twice.
sendToInputBridge_WritesTwice(s, event, writeThrows) ==
  IF s.inputBridge = None THEN s
  ELSE IF s.inputBridge[1].killed \/ s.inputBridge[1].exitCode # None THEN s
  ELSE IF \/ s.inputBridge[1].stdin = None
          \/ s.inputBridge[1].stdin[1].destroyed
          \/ s.inputBridge[1].stdin[1].writableEnded
          \/ ~s.inputBridge[1].stdin[1].writable
  THEN s
  ELSE LET payload == IF s.resolvedDisplayBounds # None
                      THEN WithDisplay(event, s.resolvedDisplayBounds[1])
                      ELSE event
       IN IF writeThrows
          THEN [s EXCEPT !.logged = Append(s.logged, "failed writing to input bridge")]
          ELSE [s EXCEPT !.bridgeOut = s.bridgeOut \o <<payload, payload>>]

\* sendToInputBridge as it would be without try and catch around the write.
sendToInputBridge_NoCatch(s, event, writeThrows) ==
  IF s.inputBridge = None THEN s
  ELSE IF s.inputBridge[1].killed \/ s.inputBridge[1].exitCode # None THEN s
  ELSE IF \/ s.inputBridge[1].stdin = None
          \/ s.inputBridge[1].stdin[1].destroyed
          \/ s.inputBridge[1].stdin[1].writableEnded
          \/ ~s.inputBridge[1].stdin[1].writable
  THEN s
  ELSE LET payload == IF s.resolvedDisplayBounds # None
                      THEN WithDisplay(event, s.resolvedDisplayBounds[1])
                      ELSE event
       IN IF writeThrows
          THEN [s EXCEPT !.uncaught = TRUE]
          ELSE [s EXCEPT !.bridgeOut = Append(s.bridgeOut, payload)]

\* writeThrows: whether stdin.write(), if it is called, throws.
sendToInputBridge(s, event, writeThrows) ==
  IF s.inputBridge = None THEN s
  ELSE IF s.inputBridge[1].killed \/ s.inputBridge[1].exitCode # None THEN s
  ELSE IF \/ s.inputBridge[1].stdin = None
          \/ s.inputBridge[1].stdin[1].destroyed
          \/ s.inputBridge[1].stdin[1].writableEnded
          \/ ~s.inputBridge[1].stdin[1].writable
  THEN s
  ELSE LET payload == IF s.resolvedDisplayBounds # None
                      THEN WithDisplay(event, s.resolvedDisplayBounds[1])
                      ELSE event
       IN IF writeThrows
          THEN [s EXCEPT !.logged = Append(s.logged, "failed writing to input bridge")]
          ELSE [s EXCEPT !.bridgeOut = Append(s.bridgeOut, payload)]

----------------------------------------------------------------------------
(* The frame emitter: index.js 643-676. *)

\* Buffer.toString("base64").length for a buffer of so many bytes.
Base64Length(bytes) == 4 * ((bytes + 2) \div 3)

\* sendFrame as it would be without the captureInProgress test.
sendFrame_NoBusyCheck(s) ==
  IF s.activeSessionId = EmptyString \/ ~s.captureLoopRunning THEN s
  ELSE
    LET started == [s EXCEPT !.captureInProgress = TRUE]
        resolving == resolveDisplayIdCall(started, "capture")
        invocation == [ captureStartedAt |-> now,
                        startedIn |-> s.activeSessionId,
                        pc |-> IF started.displayResolved THEN "screenshot" ELSE "resolving",
                        displayId |-> started.resolvedDisplayId ]
    IN [resolving EXCEPT !.captures = Append(resolving.captures, invocation)]

\* sendFrame as it would be without its first test.
sendFrame_NoIdleTest(s) ==
  IF s.captureInProgress THEN scheduleNextCapture(s, Some(BusyRetryDelayMs))
  ELSE
    LET started == [s EXCEPT !.captureInProgress = TRUE]
        resolving == resolveDisplayIdCall(started, "capture")
        invocation == [ captureStartedAt |-> now,
                        startedIn |-> s.activeSessionId,
                        pc |-> IF started.displayResolved THEN "screenshot" ELSE "resolving",
                        displayId |-> started.resolvedDisplayId ]
    IN [resolving EXCEPT !.captures = Append(resolving.captures, invocation)]

\* sendFrame as it would be if a busy tick returned without arming a timer.
sendFrame_BusyNoRetry(s) ==
  IF s.activeSessionId = EmptyString \/ ~s.captureLoopRunning THEN s
  ELSE IF s.captureInProgress THEN s
  ELSE
    LET started == [s EXCEPT !.captureInProgress = TRUE]
        resolving == resolveDisplayIdCall(started, "capture")
        invocation == [ captureStartedAt |-> now,
                        startedIn |-> s.activeSessionId,
                        pc |-> IF started.displayResolved THEN "screenshot" ELSE "resolving",
                        displayId |-> started.resolvedDisplayId ]
    IN [resolving EXCEPT !.captures = Append(resolving.captures, invocation)]

\* sendFrame up to its first await.
sendFrame(s) ==
  IF s.activeSessionId = EmptyString \/ ~s.captureLoopRunning THEN s
  ELSE IF s.captureInProgress THEN scheduleNextCapture(s, Some(BusyRetryDelayMs))
  ELSE
    LET started == [s EXCEPT !.captureInProgress = TRUE]
        resolving == resolveDisplayIdCall(started, "capture")
        invocation == [ captureStartedAt |-> now,
                        startedIn |-> s.activeSessionId,
                        pc |-> IF started.displayResolved THEN "screenshot" ELSE "resolving",
                        displayId |-> started.resolvedDisplayId ]
    IN [resolving EXCEPT !.captures = Append(resolving.captures, invocation)]

\* sendFrameSettled as it would be if its finally block ran only when no error was
\* thrown: after a failed capture the flag stays set and no tick is scheduled.
sendFrameSettled_FailureSkipsFinally(s, i, outcome) ==
  LET invocation == s.captures[i]
      imageLength == Base64Length(outcome.bytes)
      emitted ==
        IF outcome.ok /\ imageLength # 0 /\ imageLength <= MAX_FRAME_BASE64_LENGTH
        THEN [s EXCEPT !.socketOut = Append(s.socketOut,
                          [ name |-> "remote-host-frame",
                            sessionId |-> s.activeSessionId,
                            imageLength |-> imageLength,
                            timestamp |-> now ])]
        ELSE s
      captureDurationMs == now - invocation.captureStartedAt
      backedOff ==
        IF performanceMode = "auto" /\ captureDurationMs >= slowCaptureThresholdMs
        THEN [emitted EXCEPT !.slowCaptureBackoffUntil = now + SlowCaptureBackoffMs]
        ELSE emitted
      finished == [backedOff EXCEPT !.captureInProgress = FALSE,
                                    !.captures = RemoveAt(backedOff.captures, i)]
  IN IF outcome.ok THEN scheduleNextCapture(finished, None)
     ELSE [s EXCEPT !.captures = RemoveAt(s.captures, i)]

\* sendFrameSettled as it would be if the finally block did not schedule the next
\* tick.
sendFrameSettled_NoReschedule(s, i, outcome) ==
  LET invocation == s.captures[i]
      imageLength == Base64Length(outcome.bytes)
      emitted ==
        IF outcome.ok /\ imageLength # 0 /\ imageLength <= MAX_FRAME_BASE64_LENGTH
        THEN [s EXCEPT !.socketOut = Append(s.socketOut,
                          [ name |-> "remote-host-frame",
                            sessionId |-> s.activeSessionId,
                            imageLength |-> imageLength,
                            timestamp |-> now ])]
        ELSE s
      captureDurationMs == now - invocation.captureStartedAt
      backedOff ==
        IF performanceMode = "auto" /\ captureDurationMs >= slowCaptureThresholdMs
        THEN [emitted EXCEPT !.slowCaptureBackoffUntil = now + SlowCaptureBackoffMs]
        ELSE emitted
  IN [backedOff EXCEPT !.captureInProgress = FALSE,
                       !.captures = RemoveAt(backedOff.captures, i)]

\* sendFrameSettled as it would be without the size test.
sendFrameSettled_NoCeiling(s, i, outcome) ==
  LET invocation == s.captures[i]
      imageLength == Base64Length(outcome.bytes)
      emitted ==
        IF outcome.ok
        THEN [s EXCEPT !.socketOut = Append(s.socketOut,
                          [ name |-> "remote-host-frame",
                            sessionId |-> s.activeSessionId,
                            imageLength |-> imageLength,
                            timestamp |-> now ])]
        ELSE s
      captureDurationMs == now - invocation.captureStartedAt
      backedOff ==
        IF performanceMode = "auto" /\ captureDurationMs >= slowCaptureThresholdMs
        THEN [emitted EXCEPT !.slowCaptureBackoffUntil = now + SlowCaptureBackoffMs]
        ELSE emitted
      finished == [backedOff EXCEPT !.captureInProgress = FALSE,
                                    !.captures = RemoveAt(backedOff.captures, i)]
  IN scheduleNextCapture(finished, None)

\* sendFrame from the moment screenshot() settles: the size check, the emit, the
\* catch and the finally block.
sendFrameSettled(s, i, outcome) ==
  LET invocation == s.captures[i]
      imageLength == Base64Length(outcome.bytes)
      emitted ==
        IF outcome.ok /\ imageLength # 0 /\ imageLength <= MAX_FRAME_BASE64_LENGTH
        THEN [s EXCEPT !.socketOut = Append(s.socketOut,
                          [ name |-> "remote-host-frame",
                            sessionId |-> s.activeSessionId,
                            imageLength |-> imageLength,
                            timestamp |-> now ])]
        ELSE s
      captureDurationMs == now - invocation.captureStartedAt
      backedOff ==
        IF performanceMode = "auto" /\ captureDurationMs >= slowCaptureThresholdMs
        THEN [emitted EXCEPT !.slowCaptureBackoffUntil = now + SlowCaptureBackoffMs]
        ELSE emitted
      finished == [backedOff EXCEPT !.captureInProgress = FALSE,
                                    !.captures = RemoveAt(backedOff.captures, i)]
  IN scheduleNextCapture(finished, None)

----------------------------------------------------------------------------
(* The inputs of the model. *)

SessionIdFields == { None, Some(<<"a">>), Some(<<" ", "b">>) }
HostIdFields == { Some(<<"h", " ">>), Some(<<"g">>) }
EventFields == { None, Some([type |-> "move"]), Some([type |-> "key-down"]) }

\* The session ids of the smaller specifications: "a" and " b".
InputSessionIdFields == { Some(<<"a">>), Some(<<" ", "b">>) }

\* The sizes, in bytes, of the buffers screenshot() resolves to.
FrameBytes == { 0, 600000, 600001 }
ScreenshotOutcomes ==
  { [ok |-> FALSE, bytes |-> 0] } \cup { [ok |-> TRUE, bytes |-> n] : n \in FrameBytes }

Display(id, left, top, width, height) ==
  [id |-> id, left |-> left, top |-> top, width |-> width, height |-> height]

ListDisplaysResults ==
  { [displays |-> <<>>, ok |-> FALSE],
    [displays |-> <<>>, ok |-> TRUE],
    [displays |->
       << Display(Some(<<"1">>), Finite(100), Finite(50), Finite(1920), Finite(1080)),
          Display(Some(<<"2">>), Finite(0), Finite(0), Finite(1280), NotFinite) >>,
     ok |-> TRUE] }

ClockSteps == { 1000 }

----------------------------------------------------------------------------
(* Events. *)

Event(name) ==
  [ name |-> name, sessionId |-> None, hostId |-> None, event |-> None,
    outcome |-> None, capture |-> None, activeBefore |-> EmptyString,
    logged |-> <<>> ]

\* The module's variables as index.js 394-405 initialises them, and
\* startInputBridge() (index.js 751) run up to its first await or its early return.
StartUp ==
  /\ activeSessionId = EmptyString
  /\ captureTimer = NoTimer
  /\ captureLoopRunning = FALSE
  /\ captureInProgress = FALSE
  /\ inputBridge = None
  /\ inputBridgeStopping = FALSE
  /\ resolvedDisplayId = config.configuredDisplayId
  /\ resolvedDisplayBounds = None
  /\ timers = <<>>
  /\ captures = <<>>
  /\ \/ bridgeStart = "skipped" /\ displayResolved = FALSE /\ listDisplays = "none"
     \/ bridgeStart = "resolving" /\ displayResolved = TRUE /\ listDisplays = "bridge"
  /\ effectiveFps = 0
  /\ lastEvent = Event("boot")
  /\ socketOut = <<>>
  /\ bridgeOut = <<>>
  /\ processExited = FALSE
  /\ cursorPos = None

Init ==
  /\ config \in { ResolveConfig(env) : env \in Environments }
  /\ now = BootTime
  /\ lastInputAt = 0
  /\ lastTypingAt = 0
  /\ slowCaptureBackoffUntil = 0
  /\ StartUp

\* A handler ran: the state it left, the event it handled, the session that was
\* active when it began and the errors it logged.  An exception that leaves a
\* handler is an uncaught exception, which ends the process.
Handled(event, s) ==
  /\ Becomes(s)
  /\ lastEvent' = [event EXCEPT !.activeBefore = activeSessionId, !.logged = s.logged]
  /\ processExited' = s.uncaught
  /\ UNCHANGED <<config, now, cursorPos>>

\* The remote-session-started handler as it would be without the host test.
RemoteSessionStarted_AnyHost(sessionId, sessionHostId) ==
  /\ ~processExited
  /\ LET normalizedSessionId == TrimmedString(sessionId)
         event == [Event("remote-session-started") EXCEPT
                     !.sessionId = sessionId, !.hostId = sessionHostId]
     IN IF normalizedSessionId = EmptyString
        THEN Handled(event, Cur)
        ELSE Handled(event,
               startCaptureLoop([Cur EXCEPT !.activeSessionId = normalizedSessionId]))

RemoteSessionStarted(sessionId, sessionHostId) ==
  /\ ~processExited
  /\ LET normalizedSessionId == TrimmedString(sessionId)
         normalizedSessionHostId == TrimmedString(sessionHostId)
         event == [Event("remote-session-started") EXCEPT
                     !.sessionId = sessionId, !.hostId = sessionHostId]
     IN IF normalizedSessionId = EmptyString \/ normalizedSessionHostId # hostId
        THEN Handled(event, Cur)
        ELSE Handled(event,
               startCaptureLoop([Cur EXCEPT !.activeSessionId = normalizedSessionId]))

\* The remote-session-ended handler as it would be if it forgot to stop the loop.
RemoteSessionEnded_NoStop(sessionId) ==
  /\ ~processExited
  /\ LET normalizedSessionId == TrimmedString(sessionId)
         event == [Event("remote-session-ended") EXCEPT !.sessionId = sessionId]
     IN IF normalizedSessionId = EmptyString \/ normalizedSessionId # activeSessionId
        THEN Handled(event, Cur)
        ELSE Handled(event, [Cur EXCEPT !.activeSessionId = EmptyString])

\* The remote-session-ended handler as it would be if it ended whatever session
\* is active.
RemoteSessionEnded_AnyId(sessionId) ==
  /\ ~processExited
  /\ LET normalizedSessionId == TrimmedString(sessionId)
         event == [Event("remote-session-ended") EXCEPT !.sessionId = sessionId]
     IN IF normalizedSessionId = EmptyString
        THEN Handled(event, Cur)
        ELSE Handled(event, stopCaptureLoop([Cur EXCEPT !.activeSessionId = EmptyString]))

RemoteSessionEnded(sessionId) ==
  /\ ~processExited
  /\ LET normalizedSessionId == TrimmedString(sessionId)
         event == [Event("remote-session-ended") EXCEPT !.sessionId = sessionId]
     IN IF normalizedSessionId = EmptyString \/ normalizedSessionId # activeSessionId
        THEN Handled(event, Cur)
        ELSE Handled(event, stopCaptureLoop([Cur EXCEPT !.activeSessionId = EmptyString]))

\* The remote-input handler as it would be without the test of the session id
\* against the active session.
RemoteInput_AnySession(sessionId, inputEvent, writeThrows) ==
  /\ ~processExited
  /\ LET normalizedSessionId == TrimmedString(sessionId)
         event == [Event("remote-input") EXCEPT
                     !.sessionId = sessionId, !.event = inputEvent]
     IN IF normalizedSessionId = EmptyString \/ inputEvent = None
        THEN Handled(event, Cur)
        ELSE LET typed == inputEvent[1].type = "key-down" \/ inputEvent[1].type = "key-up"
                 stamped == [Cur EXCEPT !.lastInputAt = now,
                                        !.lastTypingAt = IF typed THEN now ELSE @]
             IN Handled(event, sendToInputBridge(stamped, inputEvent[1], writeThrows))

\* The remote-input handler as it would be if only key-down counted as typing.
RemoteInput_KeyDownOnly(sessionId, inputEvent, writeThrows) ==
  /\ ~processExited
  /\ LET normalizedSessionId == TrimmedString(sessionId)
         event == [Event("remote-input") EXCEPT
                     !.sessionId = sessionId, !.event = inputEvent]
     IN IF normalizedSessionId = EmptyString \/ inputEvent = None
        THEN Handled(event, Cur)
        ELSE IF normalizedSessionId # activeSessionId
        THEN Handled(event, Cur)
        ELSE LET typed == inputEvent[1].type = "key-down"
                 stamped == [Cur EXCEPT !.lastInputAt = now,
                                        !.lastTypingAt = IF typed THEN now ELSE @]
             IN Handled(event, sendToInputBridge(stamped, inputEvent[1], writeThrows))

\* The remote-input handler as it would be if it ran only between captures.
RemoteInput_WaitsForCapture(sessionId, inputEvent, writeThrows) ==
  /\ ~processExited
  /\ ~captureInProgress
  /\ LET normalizedSessionId == TrimmedString(sessionId)
         event == [Event("remote-input") EXCEPT
                     !.sessionId = sessionId, !.event = inputEvent]
     IN IF normalizedSessionId = EmptyString \/ inputEvent = None
        THEN Handled(event, Cur)
        ELSE IF normalizedSessionId # activeSessionId
        THEN Handled(event, Cur)
        ELSE LET typed == inputEvent[1].type = "key-down" \/ inputEvent[1].type = "key-up"
                 stamped == [Cur EXCEPT !.lastInputAt = now,
                                        !.lastTypingAt = IF typed THEN now ELSE @]
             IN Handled(event, sendToInputBridge(stamped, inputEvent[1], writeThrows))

RemoteInput(sessionId, inputEvent, writeThrows) ==
  /\ ~processExited
  /\ LET normalizedSessionId == TrimmedString(sessionId)
         event == [Event("remote-input") EXCEPT
                     !.sessionId = sessionId, !.event = inputEvent]
     IN IF normalizedSessionId = EmptyString \/ inputEvent = None
        THEN Handled(event, Cur)
        ELSE IF normalizedSessionId # activeSessionId
        THEN Handled(event, Cur)
        ELSE LET typed == inputEvent[1].type = "key-down" \/ inputEvent[1].type = "key-up"
                 stamped == [Cur EXCEPT !.lastInputAt = now,
                                        !.lastTypingAt = IF typed THEN now ELSE @]
             IN Handled(event, sendToInputBridge(stamped, inputEvent[1], writeThrows))

\* The disconnect handler as it would be if it forgot the activity on record.
Disconnect_ResetsActivity ==
  /\ ~processExited
  /\ Handled(Event("disconnect"),
             stopCaptureLoop([Cur EXCEPT !.activeSessionId = EmptyString,
                                         !.lastInputAt = 0, !.lastTypingAt = 0]))

Disconnect ==
  /\ ~processExited
  /\ Handled(Event("disconnect"), stopCaptureLoop([Cur EXCEPT !.activeSessionId = EmptyString]))

\* The remote-session-error handler as it would be if it ended the session.
RemoteSessionError_EndsSession(message, code) ==
  /\ ~processExited
  /\ Handled([Event("remote-session-error") EXCEPT
                !.event = Some([message |-> message, code |-> code])],
             stopCaptureLoop([Cur EXCEPT !.activeSessionId = EmptyString]))

\* The remote-session-error handler: it logs the message and the code.
RemoteSessionError(message, code) ==
  /\ ~processExited
  /\ Handled([Event("remote-session-error") EXCEPT
                !.event = Some([message |-> message, code |-> code])],
             Cur)

\* The remote-host-registered handler: it logs the host id.
RemoteHostRegistered(registeredHostId) ==
  /\ ~processExited
  /\ Handled([Event("remote-host-registered") EXCEPT !.hostId = registeredHostId], Cur)

\* A pending timer's callback runs: captureTimer = null; void sendFrame().
TimerFires(i) ==
  /\ ~processExited
  /\ i \in 1..Len(timers)
  /\ timers[i].due <= now
  /\ Handled(Event("timer"),
             sendFrame([Cur EXCEPT !.timers = RemoveAt(timers, i),
                                   !.captureTimer = NoTimer]))

\* screenshot.listDisplays() settles, and whoever awaited resolveDisplayId goes on:
\* startInputBridge spawns the bridge, sendFrame calls screenshot().
ListDisplaysSettled(result) ==
  /\ ~processExited
  /\ listDisplays # "none"
  /\ LET resolved == [resolveDisplayIdSettled(Cur, result) EXCEPT !.listDisplays = "none"]
         event == [Event("list-displays") EXCEPT !.outcome = Some(result)]
     IN IF listDisplays = "bridge"
        THEN Handled(event, [resolved EXCEPT !.bridgeStart = "done",
                                             !.inputBridge = Some(SpawnedBridge)])
        ELSE Handled(event,
               [resolved EXCEPT !.captures =
                  [ k \in 1..Len(resolved.captures) |->
                      IF resolved.captures[k].pc = "resolving"
                      THEN [resolved.captures[k] EXCEPT
                              !.pc = "screenshot", !.displayId = resolved.resolvedDisplayId]
                      ELSE resolved.captures[k] ]])

\* screenshot() settles for the i-th invocation in flight.
ScreenshotSettled(i, outcome) ==
  /\ ~processExited
  /\ i \in 1..Len(captures)
  /\ captures[i].pc = "screenshot"
  /\ Handled([Event("screenshot") EXCEPT !.outcome = Some(outcome),
                                        !.capture = Some(captures[i])],
             sendFrameSettled(Cur, i, outcome))

\* The 'exit' handler as it would be if it stopped the capture loop.
BridgeExit_StopsCapture ==
  /\ ~processExited
  /\ inputBridge # None
  /\ Handled(Event("bridge-exit"),
             stopCaptureLoop([Cur EXCEPT !.inputBridge = None, !.inputBridgeStopping = FALSE]))

\* The bridge process exits: the 'exit' handler.
BridgeExit ==
  /\ ~processExited
  /\ inputBridge # None
  /\ Handled(Event("bridge-exit"),
             [Cur EXCEPT !.inputBridge = None, !.inputBridgeStopping = FALSE])

\* The bridge could not be spawned: the runtime sets exitCode to the negative
\* error number, destroys stdin and emits 'error' (not 'exit'); the handler logs.
BridgeSpawnFails ==
  /\ ~processExited
  /\ inputBridge # None
  /\ inputBridge[1] = SpawnedBridge
  /\ Handled(Event("bridge-error"),
             [Cur EXCEPT !.inputBridge = Some([killed |-> FALSE,
                                              exitCode |-> Some(SpawnErrorCode),
                                              stdin |-> Some(DestroyedStream)])])

\* The pipe to the bridge breaks while the bridge process is still running: the
\* runtime destroys the stdin stream.
BridgeStdinCloses ==
  /\ ~processExited
  /\ inputBridge # None
  /\ inputBridge[1] = SpawnedBridge
  /\ Handled(Event("bridge-stdin-closed"),
             [Cur EXCEPT !.inputBridge = Some([SpawnedBridge EXCEPT !.stdin = Some(DestroyedStream)])])

AdvanceClock(d) ==
  /\ ~processExited
  /\ now + d <= BootTime + MaxClockSteps * 1000
  /\ now' = now + d
  /\ Becomes(Cur)
  /\ lastEvent' = [Event("clock") EXCEPT !.activeBefore = activeSessionId]
  /\ UNCHANGED <<config, processExited, cursorPos>>

\* SIGINT or SIGTERM: shutdown().  socket.disconnect() runs the disconnect handler
\* when the socket was connected.
Shutdown ==
  /\ ~processExited
  /\ LET stopped == stopInputBridge(stopCaptureLoop(Cur))
     IN \/ Becomes(stopped)
        \/ Becomes(stopCaptureLoop([stopped EXCEPT !.activeSessionId = EmptyString]))
  /\ lastEvent' = [Event("shutdown") EXCEPT !.activeBefore = activeSessionId]
  /\ processExited' = TRUE
  /\ UNCHANGED <<config, now, cursorPos>>

Next ==
  \/ \E sessionId \in SessionIdFields, sessionHostId \in HostIdFields :
       RemoteSessionStarted(sessionId, sessionHostId)
  \/ \E sessionId \in SessionIdFields : RemoteSessionEnded(sessionId)
  \/ \E sessionId \in SessionIdFields, inputEvent \in EventFields, writeThrows \in BOOLEAN :
       RemoteInput(sessionId, inputEvent, writeThrows)
  \/ Disconnect
  \/ \E i \in 1..Len(timers) : TimerFires(i)
  \/ \E result \in ListDisplaysResults : ListDisplaysSettled(result)
  \/ \E i \in 1..Len(captures), outcome \in ScreenshotOutcomes : ScreenshotSettled(i, outcome)
  \/ BridgeExit
  \/ \E d \in ClockSteps : AdvanceClock(d)
  \/ Shutdown

Spec == Init /\ [][Next]_vars

----------------------------------------------------------------------------
(* Session lifecycle and capture scheduler: properties. *)

Idle == activeSessionId = EmptyString
Active == activeSessionId # EmptyString

\* The scheduler's state and the captures in flight.
schedulerVars == <<activeSessionId, captureLoopRunning, captureInProgress,
                   captureTimer, timers, captures>>

\* The last step handled this event.
Last(name) == lastEvent.name = name
\* The step being taken handles this event.
Handling(name) == lastEvent'.name = name

\* C1: while the process runs, activeSessionId is non-empty if and only if
\* captureLoopRunning is true.
C1_ActiveIffRunning == ~processExited => (Active <=> captureLoopRunning)

C1_Witness == Last("screenshot") /\ Active /\ captureLoopRunning

\* C2: at most one capture is in flight, and only while captureInProgress is set.
C2_NoOverlap == Len(captures) <= 1 /\ (captures # <<>> => captureInProgress)

\* A tick fired while a capture was in flight and was put off by 60 ms.
C2_Witness ==
  /\ Last("timer") /\ Len(captures) = 1
  /\ \E k \in 1..Len(timers) : timers[k].delay = BusyRetryDelayMs

\* C3: a session-started event received while Idle records the session and starts
\* the scheduler exactly when its host id is the agent's and its session id is not
\* empty; otherwise it changes neither the session nor the scheduler.
C3_StartWhileIdle ==
  [][ (Handling("remote-session-started") /\ Idle) =>
        IF /\ TrimmedString(lastEvent'.hostId) = hostId
           /\ TrimmedString(lastEvent'.sessionId) # EmptyString
        THEN /\ activeSessionId' = TrimmedString(lastEvent'.sessionId)
             /\ captureLoopRunning'
             /\ captureTimer' # NoTimer
             /\ \E k \in 1..Len(timers') : timers'[k].id = captureTimer'
        ELSE UNCHANGED schedulerVars ]_vars

C3_Witness ==
  /\ Last("remote-session-started") /\ lastEvent.activeBefore = EmptyString
  /\ lastEvent.sessionId = Some(<<" ", "b">>) /\ activeSessionId = <<"b">>
  /\ captureLoopRunning /\ captureTimer # NoTimer

\* C4 as claimed: a session-started event received while a session is Active does
\* not replace activeSessionId and does not restart the scheduler.
C4_StartOnlyWhileIdle ==
  [][ (Handling("remote-session-started") /\ Active) => UNCHANGED schedulerVars ]_vars

\* C4 as amended: a session-started event for this host with a non-empty session id
\* received while Active replaces activeSessionId by the new id and restarts the
\* scheduler: the pending timer is cancelled and a zero-delay one is armed, while
\* the capture in flight and captureInProgress are left alone.  Any other
\* session-started event changes nothing.
C4_StartWhileActiveReplaces ==
  [][ (Handling("remote-session-started") /\ Active) =>
        IF /\ TrimmedString(lastEvent'.hostId) = hostId
           /\ TrimmedString(lastEvent'.sessionId) # EmptyString
        THEN /\ activeSessionId' = TrimmedString(lastEvent'.sessionId)
             /\ captureLoopRunning'
             /\ Len(timers') = 1
             /\ timers'[1].id = captureTimer' /\ timers'[1].due = now
             /\ UNCHANGED <<captureInProgress, captures>>
        ELSE UNCHANGED schedulerVars ]_vars

\* Session "a" was active with a capture in flight, and a start of "b" replaced it.
C4_Witness ==
  /\ Last("remote-session-started") /\ lastEvent.activeBefore = <<"a">>
  /\ activeSessionId = <<"b">> /\ captures # <<>>

\* C5: after a disconnect the session is cleared, the scheduler is stopped and no
\* capture timer is pending.
C5_AfterDisconnect ==
  Last("disconnect") =>
    /\ Idle /\ ~captureLoopRunning
    /\ captureTimer = NoTimer /\ timers = <<>>

\* A disconnect while a session was active and its capture in flight.
C5_Witness == Last("disconnect") /\ lastEvent.activeBefore # EmptyString /\ captures # <<>>

\* C6: a session-ended event for the active session clears the session, stops the
\* scheduler and cancels the pending timer.
C6_MatchingEnd ==
  ( /\ Last("remote-session-ended")
    /\ lastEvent.activeBefore # EmptyString
    /\ TrimmedString(lastEvent.sessionId) = lastEvent.activeBefore ) =>
    /\ Idle /\ ~captureLoopRunning
    /\ captureTimer = NoTimer /\ timers = <<>>

C6_Witness ==
  /\ Last("remote-session-ended") /\ lastEvent.activeBefore = <<"b">>
  /\ lastEvent.sessionId = Some(<<" ", "b">>) /\ Idle

\* C7: a session-ended event whose session id is empty or is not the active one
\* changes neither the session nor the scheduler.
C7_MismatchedEnd ==
  [][ ( /\ Handling("remote-session-ended")
        /\ \/ TrimmedString(lastEvent'.sessionId) = EmptyString
           \/ TrimmedString(lastEvent'.sessionId) # activeSessionId ) =>
        UNCHANGED schedulerVars ]_vars

\* Session "b" is still active after a session-ended for "a".
C7_Witness ==
  /\ Last("remote-session-ended") /\ lastEvent.sessionId = Some(<<"a">>)
  /\ lastEvent.activeBefore = <<"b">> /\ activeSessionId = <<"b">> /\ captureLoopRunning

\* C8 as claimed: no frame is handed to the transport when no session is active.
C8_NoFrameWhenIdle == socketOut # <<>> => Active

\* C9: a frame whose encoding is empty or longer than MAX_FRAME_BASE64_LENGTH is
\* never handed to the transport; it is dropped, no capture is retried, and the
\* next tick is scheduled when the session is still active.
C9_SizeCeiling ==
  /\ \A k \in 1..Len(socketOut) :
       socketOut[k].imageLength >= 1 /\ socketOut[k].imageLength <= MAX_FRAME_BASE64_LENGTH
  /\ ( /\ Last("screenshot")
       /\ \/ Base64Length(lastEvent.outcome[1].bytes) > MAX_FRAME_BASE64_LENGTH
          \/ Base64Length(lastEvent.outcome[1].bytes) = 0 ) =>
       /\ socketOut = <<>>
       /\ captures = <<>> /\ ~captureInProgress
       /\ (Active => captureTimer # NoTimer)

\* An oversized frame was dropped and the next tick is armed.
C9_Witness ==
  /\ Last("screenshot") /\ lastEvent.outcome[1].ok
  /\ Base64Length(lastEvent.outcome[1].bytes) > MAX_FRAME_BASE64_LENGTH
  /\ socketOut = <<>> /\ Active /\ captureTimer # NoTimer

\* C12 as claimed: the timer armed when a capture completes has the delay
\* max(80, floor(1000 / effective rate)), so at least 80 ms.
C12_DelayAfterCapture ==
  (Last("screenshot") /\ Active) =>
    \E k \in 1..Len(timers) :
      /\ timers[k].id = captureTimer
      /\ timers[k].delay = Max(MinCaptureDelayMs, 1000 \div getEffectiveCaptureFps(Cur))
      /\ timers[k].delay >= MinCaptureDelayMs

\* C13 as claimed: a capture starts at least 80 ms after the previous one
\* completed.  The clock moves only in the clock's own steps, so a capture started
\* by the step that follows a completion starts 0 ms after it, and the claim rules
\* that step out.
C13_MinInterval ==
  [][ ~( /\ Last("screenshot") /\ Handling("timer")
         /\ Len(captures') = Len(captures) + 1
         /\ captures'[Len(captures')].captureStartedAt = now ) ]_vars

\* C14: in auto mode a capture that completes after slowCaptureThresholdMs or more
\* sets slowCaptureBackoffUntil to the completion time plus 1600 ms, and every
\* evaluation of the effective rate made no later than slowCaptureBackoffUntil
\* returns at most the clamped input rate.
C14_SlowCaptureBackoff ==
  /\ ( /\ Last("screenshot") /\ performanceMode = "auto"
       /\ now - lastEvent.capture[1].captureStartedAt >= slowCaptureThresholdMs ) =>
       slowCaptureBackoffUntil = now + SlowCaptureBackoffMs
  /\ (performanceMode = "auto" /\ effectiveFps # 0 /\ now <= slowCaptureBackoffUntil) =>
       effectiveFps <= normalizedInputFps

\* A capture took 1000 ms with no input for longer than both windows: the backoff
\* runs and the rate evaluated at the completion is the input rate, below the base
\* rate.
C14_Witness ==
  /\ Last("screenshot") /\ performanceMode = "auto" /\ Active
  /\ now - lastEvent.capture[1].captureStartedAt >= slowCaptureThresholdMs
  /\ slowCaptureBackoffUntil = now + SlowCaptureBackoffMs
  /\ now - lastTypingAt > typingWindowMs /\ now - lastInputAt > inputWindowMs
  /\ effectiveFps = normalizedInputFps /\ normalizedInputFps < normalizedBaseFps

\* C15: when screenshot() fails while a session is active, no frame is emitted,
\* captureInProgress is cleared, the process goes on, and the timer armed is the
\* one that would have been armed had the capture succeeded.
C15_FailureContained ==
  [][ (Handling("screenshot") /\ ~lastEvent'.outcome[1].ok /\ Active) =>
        /\ socketOut' = <<>>
        /\ ~captureInProgress'
        /\ ~processExited'
        /\ captureTimer' # NoTimer
        /\ \A i \in 1..Len(captures), succeeded \in ScreenshotOutcomes :
             (captures[i] = lastEvent'.capture[1] /\ succeeded.ok) =>
               /\ timers' = sendFrameSettled(Cur, i, succeeded).timers
               /\ captureTimer' = sendFrameSettled(Cur, i, succeeded).captureTimer ]_vars

C15_Witness ==
  /\ Last("screenshot") /\ ~lastEvent.outcome[1].ok
  /\ lastEvent.activeBefore # EmptyString /\ Active
  /\ socketOut = <<>> /\ ~captureInProgress /\ captures = <<>>
  /\ captureTimer # NoTimer /\ Len(timers) = 1

\* C22: screenshot.listDisplays() is called only while displayResolved is false,
\* and displayResolved, once set, stays set: the displays are enumerated at most
\* once.  Once the enumeration has settled, with a list or with an error,
\* resolvedDisplayId and resolvedDisplayBounds never change.
C22_ResolvedOnce ==
  [][ /\ displayResolved => displayResolved'
      /\ (listDisplays' # "none" /\ listDisplays' # listDisplays) => ~displayResolved
      /\ (displayResolved /\ listDisplays = "none") =>
           (listDisplays' = "none" /\ UNCHANGED <<resolvedDisplayId, resolvedDisplayBounds>>) ]_vars

\* The enumeration made for the bridge has settled and selected display "2"; a
\* capture started later and went straight to screenshot() with that id.
C22_Witness ==
  /\ Last("timer") /\ bridgeStart = "done" /\ listDisplays = "none"
  /\ configuredDisplayId = EmptyString /\ resolvedDisplayId = <<"2">>
  /\ Len(captures) = 1 /\ captures[1].pc = "screenshot"
  /\ captures[1].displayId = <<"2">>

\* C25: a tick that fires while a capture is in progress in an active session
\* starts no capture, emits nothing, leaves captureInProgress set and leaves
\* exactly one timer pending, armed with a delay of 60 ms.
C25_BusyTick ==
  [][ (Handling("timer") /\ Active /\ captureLoopRunning /\ captureInProgress) =>
        /\ UNCHANGED <<captures, captureInProgress>>
        /\ socketOut' = <<>>
        /\ Len(timers') = 1
        /\ timers'[1].id = captureTimer'
        /\ timers'[1].delay = BusyRetryDelayMs /\ timers'[1].due = now + BusyRetryDelayMs ]_vars

\* A second start of the session re-armed the timer while the capture was in
\* flight; the tick found it in progress and re-armed itself.
C25_Witness ==
  /\ Last("timer") /\ lastEvent.activeBefore # EmptyString /\ Active
  /\ captureInProgress /\ Len(captures) = 1
  /\ Len(timers) = 1 /\ timers[1].id = captureTimer
  /\ timers[1].due = now + BusyRetryDelayMs

\* C35: at most one timer is pending, and it is the one captureTimer holds.
C35_SingleTimer ==
  /\ Len(timers) <= 1
  /\ timers # <<>> => captureTimer = timers[1].id
  /\ captureTimer # NoTimer => timers # <<>>

\* A session-started event for "b" arrived while "a" was active with a capture in
\* flight: the timer that was pending is gone and the one just armed is alone.
C35_Witness ==
  /\ Last("remote-session-started") /\ lastEvent.activeBefore = <<"a">>
  /\ activeSessionId = <<"b">> /\ captureInProgress
  /\ Len(timers) = 1 /\ timers[1].delay = 0 /\ captureTimer = timers[1].id

\* C36: while no session is active no timer is pending and captureTimer is null.
C36_NoTimerWhileIdle == Idle => (captureTimer = NoTimer /\ timers = <<>>)

\* The capture that was in flight when its session ended has completed: no frame
\* is awaited any more and no timer was armed.
C36_Witness ==
  /\ Last("screenshot") /\ lastEvent.capture[1].startedIn = <<"a">>
  /\ Idle /\ ~captureInProgress /\ captures = <<>>
  /\ captureTimer = NoTimer /\ timers = <<>>

\* C37: while a session is active and the scheduler runs, a timer is pending or a
\* capture is in progress.
C37_LoopDriven ==
  (Active /\ captureLoopRunning) =>
    (captureInProgress \/ (captureTimer # NoTimer /\ timers # <<>>))

\* The tick has started a capture: no timer is pending and the capture's
\* completion is what arms the next one.
C37_Witness ==
  /\ Last("timer") /\ Active /\ captureLoopRunning
  /\ captureTimer = NoTimer /\ timers = <<>>
  /\ captureInProgress /\ Len(captures) = 1 /\ captures[1].pc = "screenshot"

----------------------------------------------------------------------------
(* sendFrame called in every state.  The agent calls sendFrame only from    *)
(* the timer callback, and clearTimeout leaves no callback to run once the  *)
(* scheduler is stopped, so the agent itself never reaches the first test   *)
(* of sendFrame with a stopped scheduler; here sendFrame is also called     *)
(* directly, in whatever state the agent is in.                             *)

SendFrameCalled ==
  /\ ~processExited
  /\ Handled(Event("send-frame"), sendFrame(Cur))

NextTick ==
  \/ RemoteSessionStarted(Some(<<"a">>), Some(<<"h", " ">>))
  \/ \E sessionId \in InputSessionIdFields : RemoteSessionEnded(sessionId)
  \/ Disconnect
  \/ \E i \in 1..Len(timers) : TimerFires(i)
  \/ SendFrameCalled
  \/ \E result \in ListDisplaysResults : ListDisplaysSettled(result)
  \/ \E i \in 1..Len(captures), outcome \in ScreenshotOutcomes : ScreenshotSettled(i, outcome)
  \/ \E d \in ClockSteps : AdvanceClock(d)

SpecTick == Init /\ [][NextTick]_vars

\* C24: a capture is started only in an active session with the scheduler
\* running, and a call of sendFrame made while no session is active or the
\* scheduler is stopped starts no capture, emits nothing and arms no timer.
C24_NoCaptureWhileIdle ==
  [][ /\ Len(captures') > Len(captures) => (Active /\ captureLoopRunning)
      /\ ( /\ Handling("send-frame") \/ Handling("timer")
           /\ Idle \/ ~captureLoopRunning ) =>
           /\ UNCHANGED <<activeSessionId, captureLoopRunning, captureInProgress, captures>>
           /\ socketOut' = <<>>
           /\ timers' = <<>> /\ captureTimer' = NoTimer ]_vars

\* sendFrame was called after the session ended with its capture still in flight:
\* nothing started and no timer is armed.
C24_Witness ==
  /\ Last("send-frame") /\ lastEvent.activeBefore = EmptyString
  /\ Idle /\ ~captureLoopRunning
  /\ captureInProgress /\ Len(captures) = 1
  /\ timers = <<>> /\ captureTimer = NoTimer

\* C26: stopCaptureLoop leaves the scheduler stopped with no timer, leaves an
\* already stopped scheduler as it is, and twice in a row gives what once gives;
\* so a disconnect received while the scheduler is stopped changes nothing.
C26_StopIdempotent ==
  [][ /\ ~stopCaptureLoop(Cur).captureLoopRunning
      /\ stopCaptureLoop(Cur).captureTimer = NoTimer
      /\ stopCaptureLoop(stopCaptureLoop(Cur)) = stopCaptureLoop(Cur)
      /\ (~captureLoopRunning /\ captureTimer = NoTimer) => stopCaptureLoop(Cur) = Cur
      /\ Handling("disconnect") =>
           /\ ~captureLoopRunning' /\ captureTimer' = NoTimer /\ timers' = <<>>
           /\ ~captureLoopRunning => UNCHANGED schedulerVars ]_vars

\* Two disconnects in a row with a capture in flight: the second found the
\* scheduler stopped.
C26_Witness ==
  /\ Last("disconnect") /\ lastEvent.activeBefore = EmptyString
  /\ ~captureLoopRunning /\ captureTimer = NoTimer /\ timers = <<>>
  /\ captureInProgress /\ Len(captures) = 1

\* C29: lastInputAt, lastTypingAt and slowCaptureBackoffUntil never decrease, and
\* a session-started event, a session-ended event and a disconnect leave the three
\* as they are.
C29_ActivityOnlyAdvances ==
  [][ /\ lastInputAt' >= lastInputAt
      /\ lastTypingAt' >= lastTypingAt
      /\ slowCaptureBackoffUntil' >= slowCaptureBackoffUntil
      /\ ( \/ Handling("remote-session-started")
           \/ Handling("remote-session-ended")
           \/ Handling("disconnect") ) =>
           UNCHANGED <<lastInputAt, lastTypingAt, slowCaptureBackoffUntil>> ]_vars

\* A key event and a slow capture in one session, then a disconnect and the start
\* of the next session: the rate of its first tick is the typing rate.
C29_Witness ==
  /\ Last("remote-session-started") /\ lastEvent.activeBefore = EmptyString /\ Active
  /\ lastTypingAt = BootTime /\ lastInputAt = BootTime
  /\ slowCaptureBackoffUntil = BootTime + 1000 + SlowCaptureBackoffMs
  /\ now = BootTime + 1000
  /\ effectiveFps = normalizedTypingFps /\ normalizedTypingFps < normalizedBaseFps

----------------------------------------------------------------------------
(* The informational events, among the events of one session. *)

ErrorMessages == { None, Some(<<" ", "x">>) }
ErrorCodes == { None, Some(<<"E">>) }

NextInfo ==
  \/ \E message \in ErrorMessages, code \in ErrorCodes : RemoteSessionError(message, code)
  \/ \E registeredHostId \in HostIdFields \cup { None } : RemoteHostRegistered(registeredHostId)
  \/ RemoteSessionStarted(Some(<<"a">>), Some(<<"h", " ">>))
  \/ \E sessionId \in InputSessionIdFields : RemoteSessionEnded(sessionId)
  \/ RemoteInput(Some(<<"a">>), Some([type |-> "key-down"]), FALSE)
  \/ Disconnect
  \/ \E i \in 1..Len(timers) : TimerFires(i)
  \/ \E result \in ListDisplaysResults : ListDisplaysSettled(result)
  \/ \E i \in 1..Len(captures) : ScreenshotSettled(i, [ok |-> TRUE, bytes |-> 600000])
  \/ \E d \in ClockSteps : AdvanceClock(d)
  \/ Shutdown

SpecInfo == Init /\ [][NextInfo]_vars

\* C27: a session-error or a registered event changes neither the session, nor the
\* scheduler, nor the activity timestamps, and emits and writes nothing; and a
\* session stops being active only by a session-ended event for it, by a
\* disconnect or by the shutdown (which disconnects).
C27_InformationalEvents ==
  [][ /\ (Handling("remote-session-error") \/ Handling("remote-host-registered")) =>
           /\ UNCHANGED <<schedulerVars, lastInputAt, lastTypingAt, slowCaptureBackoffUntil,
                          inputBridge, processExited>>
           /\ socketOut' = <<>> /\ bridgeOut' = <<>>
      /\ (Active /\ Idle') =>
           \/ Handling("remote-session-ended")
                /\ TrimmedString(lastEvent'.sessionId) = activeSessionId
           \/ Handling("disconnect")
           \/ Handling("shutdown") ]_vars

\* A session error arrived in an active session with a capture in flight and
\* typing on record: the session is still active.
C27_Witness ==
  /\ Last("remote-session-error") /\ lastEvent.activeBefore = <<"a">>
  /\ activeSessionId = <<"a">> /\ captureLoopRunning
  /\ captureInProgress /\ Len(captures) = 1
  /\ lastTypingAt = BootTime /\ now = BootTime + 1000

----------------------------------------------------------------------------
(* Progress of the capture loop.  The event loop runs a timer's callback    *)
(* once the timer is due: weak fairness of TimerFires.  Session events      *)
(* (duplicate, for another host, for a session that is not active), input   *)
(* events, the settling of promises and the clock are free to happen or     *)
(* not.                                                                     *)

\* Session "a" of this host (again and again), a session of another host, and
\* the end of "a" or of a session that is not active.
LiveSessionIdFields == { Some(<<"a">>), Some(<<" ", "b">>) }
LiveOutcomes == { outcome \in ScreenshotOutcomes : outcome.bytes # 0 \/ ~outcome.ok }

NextLive ==
  \/ \E sessionHostId \in HostIdFields : RemoteSessionStarted(Some(<<"a">>), sessionHostId)
  \/ \E sessionId \in LiveSessionIdFields : RemoteSessionEnded(sessionId)
  \/ RemoteInput(Some(<<"a">>), Some([type |-> "key-down"]), FALSE)
  \/ \E i \in 1..Len(timers) : TimerFires(i)
  \/ \E result \in ListDisplaysResults : ListDisplaysSettled(result)
  \/ \E i \in 1..Len(captures), outcome \in LiveOutcomes : ScreenshotSettled(i, outcome)
  \/ \E d \in ClockSteps : AdvanceClock(d)

SpecLive ==
  /\ Init /\ [][NextLive]_vars
  /\ WF_vars(\E i \in 1..Len(timers) : TimerFires(i))

\* C16: after a capture completes (emitted, dropped or failed) in an active
\* session, a new capture is eventually started unless the session ends first.
C16_LoopNeverStalls ==
  (Last("screenshot") /\ Active) ~> (captures # <<>> \/ Idle)

\* A capture completed a second after boot (the backoff it set says so), the tick
\* armed at its completion fired and the next capture is in flight in the same
\* session.
C16_Witness ==
  /\ Last("timer") /\ Active /\ Len(captures) = 1
  /\ lastEvent.activeBefore = activeSessionId
  /\ slowCaptureBackoffUntil = BootTime + 1000 + SlowCaptureBackoffMs
  /\ captures[1].captureStartedAt = BootTime + 1000
  /\ captures[1].startedIn = activeSessionId

\* C17: a remote-input message whose session id is empty, or is not the active
\* session's (so every message received while Idle), or that carries no event,
\* writes nothing to the bridge, logs nothing and changes neither lastInputAt, nor
\* lastTypingAt, nor the session and the scheduler.
C17_InputDropped ==
  [][ ( /\ Handling("remote-input")
        /\ \/ TrimmedString(lastEvent'.sessionId) = EmptyString
           \/ TrimmedString(lastEvent'.sessionId) # activeSessionId
           \/ lastEvent'.event = None ) =>
        /\ bridgeOut' = <<>> /\ lastEvent'.logged = <<>>
        /\ UNCHANGED <<lastInputAt, lastTypingAt, schedulerVars>> ]_vars

\* A key event for session "a" arrived while "b" was active and the bridge was
\* writable: nothing was written and there is still no typing on record.
C17_Witness ==
  /\ Last("remote-input") /\ lastEvent.sessionId = Some(<<"a">>)
  /\ lastEvent.event = Some([type |-> "key-down"])
  /\ lastEvent.activeBefore = <<"b">> /\ activeSessionId = <<"b">>
  /\ inputBridge = Some(SpawnedBridge)
  /\ bridgeOut = <<>> /\ lastInputAt = 0 /\ lastTypingAt = 0

----------------------------------------------------------------------------
(* The input path and the bridge's failures: every event type, a write that *)
(* throws, a bridge that could not be spawned, whose pipe broke or that     *)
(* exited, with one session and frames that are always emitted.             *)

InputEventTypes ==
  { "move", "click", "mouse-down", "mouse-up", "wheel", "key-down", "key-up" }
InputEventFields == { None } \cup { Some([type |-> t]) : t \in InputEventTypes }

NextInput ==
  \/ RemoteSessionStarted(Some(<<"a">>), Some(<<"h", " ">>))
  \/ RemoteSessionEnded(Some(<<"a">>))
  \/ \E sessionId \in InputSessionIdFields, inputEvent \in InputEventFields,
        writeThrows \in BOOLEAN :
       RemoteInput(sessionId, inputEvent, writeThrows)
  \/ \E i \in 1..Len(timers) : TimerFires(i)
  \/ \E result \in ListDisplaysResults : ListDisplaysSettled(result)
  \/ \E i \in 1..Len(captures) : ScreenshotSettled(i, [ok |-> TRUE, bytes |-> 600000])
  \/ BridgeExit
  \/ BridgeSpawnFails
  \/ BridgeStdinCloses
  \/ \E d \in ClockSteps : AdvanceClock(d)

SpecInput == Init /\ [][NextInput]_vars

\* The step being taken handles a remote-input message for the active session that
\* carries an event.
HandlingAcceptedInput ==
  /\ Handling("remote-input")
  /\ TrimmedString(lastEvent'.sessionId) # EmptyString
  /\ TrimmedString(lastEvent'.sessionId) = activeSessionId
  /\ lastEvent'.event # None

\* The tests of sendToInputBridge that make it return without writing.
BridgeUnusable ==
  \/ inputBridge = None
  \/ inputBridge[1].killed
  \/ inputBridge[1].exitCode # None
  \/ inputBridge[1].stdin = None
  \/ inputBridge[1].stdin[1].destroyed
  \/ inputBridge[1].stdin[1].writableEnded
  \/ ~inputBridge[1].stdin[1].writable

\* C18: an accepted input event sets lastInputAt to the current time, and sets
\* lastTypingAt to the current time when its type is key-down or key-up and leaves
\* it alone for every other type, whatever the state of the bridge.
C18_AcceptedInputStamps ==
  [][ HandlingAcceptedInput =>
        /\ lastInputAt' = now
        /\ lastTypingAt' = IF lastEvent'.event[1].type \in { "key-down", "key-up" }
                           THEN now ELSE lastTypingAt ]_vars

\* A key-up at boot time, then a wheel event a second later with the bridge gone:
\* lastInputAt moved and lastTypingAt did not.
C18_Witness ==
  /\ Last("remote-input") /\ lastEvent.event = Some([type |-> "wheel"])
  /\ lastEvent.activeBefore = <<"a">> /\ lastEvent.sessionId = Some(<<"a">>)
  /\ inputBridge = None /\ bridgeStart = "done"
  /\ now = BootTime + 1000 /\ lastInputAt = now /\ lastTypingAt = BootTime

\* C19: sendToInputBridge writes nothing and logs nothing when the bridge is
\* absent, killed or exited or its stdin is missing, destroyed, ended or not
\* writable; no exception leaves the remote-input handler, also when the write
\* throws; and the handler changes neither the session, nor the scheduler, nor the
\* bridge.
C19_SendNeverThrows ==
  [][ Handling("remote-input") =>
        /\ ~processExited'
        /\ BridgeUnusable => (bridgeOut' = <<>> /\ lastEvent'.logged = <<>>)
        /\ lastEvent'.logged # <<>> => bridgeOut' = <<>>
        /\ UNCHANGED <<schedulerVars, inputBridge, inputBridgeStopping>> ]_vars

\* The write threw while a capture was in flight: the error was logged, nothing
\* was written and the process and the session go on.
C19_Witness ==
  /\ Last("remote-input") /\ lastEvent.logged # <<>>
  /\ bridgeOut = <<>> /\ ~processExited
  /\ Active /\ captureLoopRunning /\ captures # <<>>

\* C20: once the bridge has exited or when it was never started, inputBridge stays
\* null and every input event writes nothing, and neither the bridge's exit nor
\* such an event changes the session or the scheduler.
C20_DegradedMode ==
  [][ /\ Handling("bridge-exit") => (inputBridge' = None /\ UNCHANGED schedulerVars)
      /\ (inputBridge = None /\ bridgeStart # "resolving") => inputBridge' = None
      /\ (inputBridge = None /\ Handling("remote-input")) =>
           (bridgeOut' = <<>> /\ UNCHANGED schedulerVars) ]_vars

\* The bridge was spawned and has exited, and a frame captured in the still active
\* session is emitted.
C20_Witness ==
  /\ Last("screenshot") /\ socketOut # <<>>
  /\ inputBridge = None /\ bridgeStart = "done"
  /\ Active /\ captureLoopRunning /\ captureTimer # NoTimer

----------------------------------------------------------------------------
(* The agent when screenshot.listDisplays() rejects: every enumeration of    *)
(* this specification fails, with and without a configured display id, on    *)
(* Windows (the bridge's start-up enumerates) and elsewhere (the first       *)
(* capture does).                                                            *)

FailEnvironments == { DefaultEnv, [DefaultEnv EXCEPT !.REMOTE_DISPLAY_ID = Some(<<"2", " ">>)] }

InitFail ==
  /\ config \in { ResolveConfig(env) : env \in FailEnvironments }
  /\ now = BootTime
  /\ lastInputAt = 0
  /\ lastTypingAt = 0
  /\ slowCaptureBackoffUntil = 0
  /\ StartUp

NextFail ==
  \/ RemoteSessionStarted(Some(<<"a">>), Some(<<"h", " ">>))
  \/ RemoteSessionEnded(Some(<<"a">>))
  \/ \E inputEvent \in EventFields, writeThrows \in BOOLEAN :
       RemoteInput(Some(<<"a">>), inputEvent, writeThrows)
  \/ \E i \in 1..Len(timers) : TimerFires(i)
  \/ ListDisplaysSettled([displays |-> <<>>, ok |-> FALSE])
  \/ \E i \in 1..Len(captures), outcome \in ScreenshotOutcomes : ScreenshotSettled(i, outcome)
  \/ \E d \in ClockSteps : AdvanceClock(d)

SpecFail == InitFail /\ [][NextFail]_vars

\* What an accepted input event writes when the bridge is usable and the write
\* does not throw is the event as it was received.
WritesEventUnmodified ==
  (HandlingAcceptedInput /\ ~BridgeUnusable /\ lastEvent'.logged = <<>>) =>
    bridgeOut' = <<lastEvent'.event[1]>>

\* The bridge's start-up goes on after the enumeration and spawns the bridge.
BridgeStartGoesOn ==
  (Handling("list-displays") /\ listDisplays = "bridge") =>
    (inputBridge' = Some(SpawnedBridge) /\ bridgeStart' = "done")

\* The statement of C31 as claimed: after a failed enumeration every capture is made
\* without a display id.
C31_EnumerationFailureClaimed ==
  /\ [](/\ ~processExited
        /\ resolvedDisplayBounds = None
        /\ \A k \in 1..Len(captures) :
             captures[k].pc = "screenshot" => captures[k].displayId = EmptyString)
  /\ [][BridgeStartGoesOn /\ WritesEventUnmodified]_vars

\* C31: when the enumeration fails the process goes on, the bridge is spawned, the
\* bounds stay null, every capture calls screenshot() with the configured display
\* id (none when none is configured), and an input event is written to the bridge
\* as it was received.
C31_EnumerationFailure ==
  /\ [](/\ ~processExited
        /\ resolvedDisplayBounds = None
        /\ resolvedDisplayId = configuredDisplayId
        /\ \A k \in 1..Len(captures) :
             captures[k].pc = "screenshot" => captures[k].displayId = configuredDisplayId)
  /\ [][BridgeStartGoesOn /\ WritesEventUnmodified]_vars

\* Display "2" is configured, the enumeration failed, the bridge was spawned, a
\* capture of display "2" is in flight and an input event was written as received.
C31_Witness ==
  /\ Last("remote-input") /\ bridgeOut = <<[type |-> "move"]>>
  /\ listDisplays = "none" /\ displayResolved /\ bridgeStart = "done"
  /\ configuredDisplayId = <<"2">>
  /\ Len(captures) = 1 /\ captures[1].pc = "screenshot" /\ captures[1].displayId = <<"2">>

----------------------------------------------------------------------------
(* The relay of input events to the bridge, with the bounds known and        *)
(* unknown: the enumeration fails, lists one display with valid bounds, or   *)
(* lists that display and one at the origin whose height is not a number.    *)
(* The controller's events are plain ones and one that has a __display field *)
(* of its own.                                                               *)

RelayResults ==
  { [displays |-> <<>>, ok |-> FALSE],
    [displays |->
       << Display(Some(<<"1">>), Finite(100), Finite(50), Finite(1920), Finite(1080)) >>,
     ok |-> TRUE],
    [displays |->
       << Display(Some(<<"1">>), Finite(100), Finite(50), Finite(1920), Finite(1080)),
          Display(Some(<<"2">>), Finite(0), Finite(0), Finite(1280), NotFinite) >>,
     ok |-> TRUE] }

OwnDisplay == [left |-> 7, top |-> 7, width |-> 7, height |-> 7]

RelayEvents ==
  { [type |-> "move"], [type |-> "key-down"],
    [type |-> "move"] @@ (SideChannelKey :> OwnDisplay) }

InitRelay ==
  /\ config = ResolveConfig(DefaultEnv)
  /\ now = BootTime
  /\ lastInputAt = 0
  /\ lastTypingAt = 0
  /\ slowCaptureBackoffUntil = 0
  /\ StartUp

NextRelay ==
  \/ \E sessionId \in InputSessionIdFields : RemoteSessionStarted(sessionId, Some(<<"h", " ">>))
  \/ RemoteSessionEnded(Some(<<"a">>))
  \/ Disconnect
  \/ \E inputEvent \in RelayEvents, writeThrows \in BOOLEAN :
       RemoteInput(Some(<<"a">>), Some(inputEvent), writeThrows)
  \/ \E i \in 1..Len(timers) : TimerFires(i)
  \/ \E result \in RelayResults : ListDisplaysSettled(result)
  \/ \E i \in 1..Len(captures) : ScreenshotSettled(i, [ok |-> TRUE, bytes |-> 600000])
  \/ BridgeExit
  \/ \E d \in ClockSteps : AdvanceClock(d)

SpecRelay == InitRelay /\ [][NextRelay]_vars

\* The statement of C32 as claimed: the line written has every field of the event
\* with the event's value, and the bounds under the side-channel key when they are
\* known.
C32_PayloadClaimed ==
  [][ bridgeOut' # <<>> =>
        /\ HandlingAcceptedInput /\ Len(bridgeOut') = 1
        /\ LET line == bridgeOut'[1]
               event == lastEvent'.event[1]
           IN IF resolvedDisplayBounds # None
              THEN /\ DOMAIN line = DOMAIN event \cup { SideChannelKey }
                   /\ line[SideChannelKey] = resolvedDisplayBounds[1]
                   /\ \A key \in DOMAIN event : line[key] = event[key]
              ELSE line = event ]_vars

\* C32: the line written is the event with the resolved bounds under the
\* side-channel key when the bounds are known, every other field of the event
\* unchanged (a __display field of the event's own is replaced), and is the event
\* itself when the bounds are unknown.
C32_Payload ==
  [][ bridgeOut' # <<>> =>
        /\ HandlingAcceptedInput /\ Len(bridgeOut') = 1
        /\ LET line == bridgeOut'[1]
               event == lastEvent'.event[1]
           IN IF resolvedDisplayBounds # None
              THEN /\ DOMAIN line = DOMAIN event \cup { SideChannelKey }
                   /\ line[SideChannelKey] = resolvedDisplayBounds[1]
                   /\ \A key \in DOMAIN event \ { SideChannelKey } : line[key] = event[key]
              ELSE line = event ]_vars

\* A key-down written with the bounds of display "1" added.
C32_Witness ==
  /\ Last("remote-input") /\ lastEvent.event = Some([type |-> "key-down"])
  /\ resolvedDisplayBounds = Some([left |-> 100, top |-> 50, width |-> 1920, height |-> 1080])
  /\ bridgeOut = << WithDisplay([type |-> "key-down"], resolvedDisplayBounds[1]) >>

\* C33: while a capture is in progress the input, session-ended and disconnect
\* handlers can run, and they do what they do at any other time: an accepted input
\* event stamps the activity timestamps and is written to a usable bridge, a
\* matching session-ended event and a disconnect make the agent Idle, and none of
\* them touches the capture in flight.
C33_NotDelayedByCapture ==
  /\ []( (captureInProgress /\ captures # <<>> /\ ~processExited) =>
           /\ ENABLED RemoteInput(Some(<<"a">>), Some([type |-> "key-down"]), FALSE)
           /\ ENABLED RemoteSessionEnded(Some(<<"a">>))
           /\ ENABLED Disconnect )
  /\ [][ (captureInProgress /\ captures # <<>>) =>
           /\ HandlingAcceptedInput =>
                /\ lastInputAt' = now
                /\ lastEvent'.event[1].type = "key-down" => lastTypingAt' = now
                /\ (~BridgeUnusable /\ lastEvent'.logged = <<>>) =>
                     (Len(bridgeOut') = 1 /\ bridgeOut'[1].type = lastEvent'.event[1].type)
           /\ (Handling("remote-session-ended") /\ lastEvent'.sessionId = Some(activeSessionId)) =>
                (Idle' /\ ~captureLoopRunning')
           /\ Handling("disconnect") => (Idle' /\ ~captureLoopRunning')
           /\ ( \/ Handling("remote-input") \/ Handling("remote-session-ended")
                \/ Handling("remote-session-started") \/ Handling("disconnect") ) =>
                (captureInProgress' /\ captures' = captures) ]_vars

\* A capture started at boot time is still in flight a second later when a
\* key-down is written to the bridge and stamps both timestamps.
C33_Witness ==
  /\ Last("remote-input") /\ lastEvent.event = Some([type |-> "key-down"])
  /\ captureInProgress /\ Len(captures) = 1 /\ captures[1].captureStartedAt = BootTime
  /\ now = BootTime + 1000 /\ lastInputAt = now /\ lastTypingAt = now
  /\ Len(bridgeOut) = 1

\* C39: a step writes at most one line to the bridge; a line is written only by
\* the step that handles an accepted input event and it is that event's line, so
\* lines are written in the order of acceptance; and an event that found the
\* bridge unusable writes nothing, in that step or in a later one.
C39_OneLineInOrder ==
  [][ /\ Len(bridgeOut') <= 1
      /\ bridgeOut' # <<>> =>
           /\ HandlingAcceptedInput /\ ~BridgeUnusable
           /\ \A key \in DOMAIN lastEvent'.event[1] \ { SideChannelKey } :
                /\ key \in DOMAIN bridgeOut'[1]
                /\ bridgeOut'[1][key] = lastEvent'.event[1][key]
      /\ (Handling("remote-input") /\ BridgeUnusable) => bridgeOut' = <<>> ]_vars

\* A key-down was accepted at boot time and a move a second later; the step that
\* handled the move wrote the move's line and nothing else.
C39_Witness ==
  /\ Last("remote-input") /\ lastEvent.event = Some([type |-> "move"])
  /\ now = BootTime + 1000 /\ lastInputAt = now /\ lastTypingAt = BootTime
  /\ resolvedDisplayBounds = None /\ bridgeOut = << [type |-> "move"] >>

\* C34: a frame emitted with a session id carries the id of the session that was
\* active when its capture started (the claim also excludes the empty id, which
\* is the subject of C8).
C34_FrameTaggedWithStartingSession ==
  (Last("screenshot") /\ socketOut # <<>>) =>
    \A k \in 1..Len(socketOut) :
      socketOut[k].sessionId # EmptyString =>
        socketOut[k].sessionId = lastEvent.capture[1].startedIn

----------------------------------------------------------------------------
(* The effective capture rate as a function of the configuration, the       *)
(* activity timestamps and the time: every state below is one the agent can *)
(* be in between two events (the last key event no later than the last      *)
(* input event, neither in the future, a backoff no further than 1600 ms    *)
(* ahead), and the one step evaluates getEffectiveCaptureFps in it.         *)

RateEnvironments ==
  { DefaultEnv,
    [DefaultEnv EXCEPT !.REMOTE_PERF_MODE = Some("fixed"), !.REMOTE_FPS = Some(30)],
    [DefaultEnv EXCEPT !.REMOTE_FPS = Some(10), !.REMOTE_MIN_FPS = Some(2),
                       !.REMOTE_ACTIVE_INPUT_FPS = Some(5), !.REMOTE_TYPING_FPS = Some(8),
                       !.REMOTE_INPUT_WINDOW_MS = Some(500),
                       !.REMOTE_TYPING_WINDOW_MS = Some(1000)] }

\* Milliseconds elapsed since the key event at BootTime.
RateOffsets == { 0, 500, 501, 1000, 1001, 1200, 1201, 2200, 2201, 2300, 2301, 4000 }

InitRate ==
  /\ config \in { ResolveConfig(env) : env \in RateEnvironments }
  /\ now \in { BootTime + d : d \in RateOffsets }
  /\ lastTypingAt \in { 0, BootTime }
  /\ lastInputAt \in { lastTypingAt, BootTime + 1100 }
  /\ lastInputAt <= now
  /\ slowCaptureBackoffUntil \in { 0, now - 1, now, now + SlowCaptureBackoffMs }
  /\ StartUp

EvaluateRate ==
  /\ effectiveFps' = getEffectiveCaptureFps(Cur)
  /\ lastEvent' = Event("rate")
  /\ UNCHANGED <<config, now, activeSessionId, captureTimer, captureLoopRunning,
                 captureInProgress, inputBridge, inputBridgeStopping, resolvedDisplayId,
                 resolvedDisplayBounds, displayResolved, lastInputAt, lastTypingAt,
                 slowCaptureBackoffUntil, timers, captures, listDisplays, bridgeStart,
                 socketOut, bridgeOut, processExited, cursorPos>>

NextRate == EvaluateRate

SpecRate == InitRate /\ [][NextRate]_vars

TypingRecent == now - lastTypingAt <= typingWindowMs
InputRecent == now - lastInputAt <= inputWindowMs
BackingOff == now <= slowCaptureBackoffUntil

\* C10: in auto mode the effective rate is the typing rate while typing is recent;
\* failing that the input rate while input is recent; failing that the input rate
\* during a backoff; failing all three the base rate.  With a typing window of
\* 2200 ms and a key event as the last activity, the rate 1000 ms later is the
\* typing rate and 2300 ms later the input or the base rate.
C10_PriorityCascade ==
  (Last("rate") /\ performanceMode = "auto") =>
    /\ TypingRecent => effectiveFps = normalizedTypingFps
    /\ (~TypingRecent /\ InputRecent) => effectiveFps = normalizedInputFps
    /\ (~TypingRecent /\ ~InputRecent /\ BackingOff) => effectiveFps = normalizedInputFps
    /\ (~TypingRecent /\ ~InputRecent /\ ~BackingOff) => effectiveFps = normalizedBaseFps
    /\ (typingWindowMs = 2200 /\ lastInputAt = lastTypingAt) =>
         /\ now - lastTypingAt = 1000 => effectiveFps = normalizedTypingFps
         /\ now - lastTypingAt = 2300 =>
              effectiveFps \in { normalizedInputFps, normalizedBaseFps }

\* 1000 ms after a key event, with input as recent and a backoff running, the rate
\* is the typing rate, which is neither the input nor the base rate.
C10_Witness ==
  /\ Last("rate") /\ performanceMode = "auto" /\ typingWindowMs = 2200
  /\ lastTypingAt = BootTime /\ lastInputAt = lastTypingAt /\ now - lastTypingAt = 1000
  /\ BackingOff
  /\ effectiveFps = normalizedTypingFps
  /\ normalizedTypingFps < normalizedInputFps /\ normalizedInputFps < normalizedBaseFps

\* Rates below 1, out of order and in order.
ClampRates == { 0 - 1, 0, 1, 4, 9 }

ClampEnvironments ==
  { [DefaultEnv EXCEPT !.REMOTE_FPS = base, !.REMOTE_MIN_FPS = minF,
                       !.REMOTE_ACTIVE_INPUT_FPS = inputF, !.REMOTE_TYPING_FPS = typF] :
      base \in { None, Some(0), Some(1), Some(4), Some(9) },
      minF \in { None } \cup { Some(n) : n \in ClampRates },
      inputF \in { None } \cup { Some(n) : n \in ClampRates },
      typF \in { None } \cup { Some(n) : n \in ClampRates } }

InitClamp ==
  /\ config \in { ResolveConfig(env) : env \in ClampEnvironments }
  /\ now = BootTime + 1000
  /\ lastTypingAt \in { 0, BootTime }
  /\ lastInputAt \in { lastTypingAt, BootTime + 500 }
  /\ slowCaptureBackoffUntil \in { 0, now + SlowCaptureBackoffMs }
  /\ StartUp
  /\ bridgeStart = "skipped"

SpecClamp == InitClamp /\ [][NextRate]_vars

\* C28: whatever base, minimum, input and typing rates are configured, the rates
\* used are each at least 1, with minimum <= input <= base and typing <= input,
\* and so is every rate evaluated.
C28_ClampedRates ==
  /\ normalizedBaseFps >= 1 /\ normalizedMinFps >= 1
  /\ normalizedInputFps >= 1 /\ normalizedTypingFps >= 1
  /\ normalizedMinFps <= normalizedInputFps /\ normalizedInputFps <= normalizedBaseFps
  /\ normalizedTypingFps <= normalizedInputFps
  /\ Last("rate") =>
       /\ effectiveFps >= 1 /\ effectiveFps <= normalizedBaseFps
       /\ performanceMode = "auto" =>
            effectiveFps \in { normalizedTypingFps, normalizedInputFps, normalizedBaseFps }

\* A base rate of 4 with a minimum of 0, an input rate of 9 and a typing rate of 9
\* configured: the input rate used is 4 and so is the typing rate.
C28_Witness ==
  /\ Last("rate") /\ baseFps = 4 /\ minFps = 0 /\ inputFps = 9 /\ typingFps = 9
  /\ normalizedMinFps = 1 /\ normalizedInputFps = 4 /\ normalizedTypingFps = 4
  /\ TypingRecent /\ effectiveFps = 4

\* C11: when the performance mode is not auto, the effective rate is the base rate
\* (at least 1) whatever lastInputAt, lastTypingAt, slowCaptureBackoffUntil and the
\* time are.
C11_FixedModeBaseRate ==
  (Last("rate") /\ performanceMode # "auto") => effectiveFps = normalizedBaseFps

\* Fixed mode, a key event 1000 ms ago and a backoff running: the rate is the base
\* rate, which is above the typing and the input rate.
C11_Witness ==
  /\ Last("rate") /\ performanceMode # "auto"
  /\ TypingRecent /\ InputRecent /\ BackingOff
  /\ effectiveFps = normalizedBaseFps
  /\ normalizedTypingFps < normalizedBaseFps /\ normalizedInputFps < normalizedBaseFps

----------------------------------------------------------------------------
(* The display resolver as a function of the configured display id and of   *)
(* the list screenshot.listDisplays() resolves to: start-up on Windows, the *)
(* enumeration made for the bridge settles with a list of one to three      *)
(* displays.                                                                *)

SelectEnvironments ==
  { DefaultEnv,
    [DefaultEnv EXCEPT !.REMOTE_DISPLAY_ID = Some(<<"2">>)],
    [DefaultEnv EXCEPT !.REMOTE_DISPLAY_ID = Some(<<"9", " ">>)] }

\* A display away from the origin, one at the origin whose height is not a number,
\* one at the origin whose id has blanks around it, one at the origin without an id
\* and one away from the origin with a negative width.
SelectDisplays ==
  { Display(Some(<<"1">>), Finite(100), Finite(50), Finite(1920), Finite(1080)),
    Display(Some(<<"2">>), Finite(0), Finite(0), Finite(1280), NotFinite),
    Display(Some(<<" ", "3", " ">>), Finite(0), Finite(0), Finite(800), Finite(600)),
    Display(None, Finite(0), Finite(0), Finite(640), Finite(480)),
    Display(Some(<<"5">>), Finite(10), Finite(10), Finite(0 - 800), Finite(600)) }

SelectLists ==
  { <<a>> : a \in SelectDisplays }
    \cup { <<a, b>> : a \in SelectDisplays, b \in SelectDisplays }
    \cup { <<a, b, c>> : a \in SelectDisplays, b \in SelectDisplays, c \in SelectDisplays }

InitSelect ==
  /\ config \in { ResolveConfig(env) : env \in SelectEnvironments }
  /\ now = BootTime
  /\ lastInputAt = 0
  /\ lastTypingAt = 0
  /\ slowCaptureBackoffUntil = 0
  /\ StartUp
  /\ bridgeStart = "resolving"

\* The enumeration settles, and a session starts whose first tick captures.
NextSelect ==
  \/ \E displays \in SelectLists : ListDisplaysSettled([displays |-> displays, ok |-> TRUE])
  \/ RemoteSessionStarted(Some(<<"a">>), Some(<<"h", " ">>))
  \/ \E i \in 1..Len(timers) : TimerFires(i)

SpecSelect == InitSelect /\ [][NextSelect]_vars

\* The list the last step's enumeration resolved to.
Listed == lastEvent.outcome[1].displays
IdOf(display) == TrimmedString(display.id)
AtOrigin(display) == display.left = Finite(0) /\ display.top = Finite(0)
EnumeratedSome == Last("list-displays") /\ lastEvent.outcome[1].ok /\ Listed # <<>>

\* C23 as claimed: from a non-empty list the display selected is the one with the
\* configured id if the list has it, else the one at the origin if the list has
\* one, else the first of the list.
C23_SelectionPriorityClaimed ==
  EnumeratedSome =>
    LET configuredAt == { i \in 1..Len(Listed) : IdOf(Listed[i]) = configuredDisplayId }
        originAt == { i \in 1..Len(Listed) : AtOrigin(Listed[i]) }
    IN IF configuredDisplayId # EmptyString /\ configuredAt # {}
       THEN resolvedDisplayId = configuredDisplayId
       ELSE IF originAt # {} THEN resolvedDisplayId = IdOf(Listed[FirstIndex(originAt)])
       ELSE resolvedDisplayId = IdOf(Listed[1])

\* C23 as amended: the selection is made among the listed displays whose trimmed
\* id is not empty: the one with the configured id if there is one, else the first
\* of them at the origin, else the first of them; its trimmed id becomes
\* resolvedDisplayId.  When no listed display has an id nothing is selected and
\* resolvedDisplayId stays the configured id.
C23_SelectionPriority ==
  EnumeratedSome =>
    LET withId == { i \in 1..Len(Listed) : IdOf(Listed[i]) # EmptyString }
        configuredAt == { i \in withId : IdOf(Listed[i]) = configuredDisplayId }
        originAt == { i \in withId : AtOrigin(Listed[i]) }
    IN IF withId = {} THEN resolvedDisplayId = configuredDisplayId
       ELSE IF configuredDisplayId # EmptyString /\ configuredAt # {}
       THEN resolvedDisplayId = configuredDisplayId
       ELSE IF originAt # {} THEN resolvedDisplayId = IdOf(Listed[FirstIndex(originAt)])
       ELSE resolvedDisplayId = IdOf(Listed[FirstIndex(withId)])

\* Display "9" is configured and is not listed: of "1", then the display without
\* an id at the origin, then "2" at the origin, "2" is selected.
C23_Witness ==
  /\ EnumeratedSome /\ configuredDisplayId = <<"9">>
  /\ Len(Listed) = 3 /\ IdOf(Listed[1]) = <<"1">>
  /\ IdOf(Listed[2]) = EmptyString /\ AtOrigin(Listed[2])
  /\ IdOf(Listed[3]) = <<"2">>
  /\ resolvedDisplayId = <<"2">>

\* The four fields of a listed display are finite numbers and its width and height
\* are positive.
ValidBounds(display) ==
  /\ display.left.finite /\ display.top.finite
  /\ display.width.finite /\ display.height.finite
  /\ display.width.value > 0 /\ display.height.value > 0

\* resolvedDisplayBounds is null or four integers with a positive width and
\* height; what the enumeration selected decides which.
BoundsValid ==
  /\ resolvedDisplayBounds # None =>
       /\ resolvedDisplayBounds[1].width > 0 /\ resolvedDisplayBounds[1].height > 0
       /\ resolvedDisplayBounds[1].left \in Int /\ resolvedDisplayBounds[1].top \in Int
  /\ EnumeratedSome =>
       LET selectedAt == { i \in 1..Len(Listed) :
                             IdOf(Listed[i]) # EmptyString /\ IdOf(Listed[i]) = resolvedDisplayId }
       IN IF selectedAt = {} THEN resolvedDisplayBounds = None
          ELSE LET selected == Listed[FirstIndex(selectedAt)]
               IN IF ValidBounds(selected)
                  THEN resolvedDisplayBounds =
                         Some([left |-> selected.left.value, top |-> selected.top.value,
                               width |-> selected.width.value, height |-> selected.height.value])
                  ELSE resolvedDisplayBounds = None

\* C30: resolvedDisplayBounds is null or has a positive width and a positive
\* height; when the enumeration selects a display, the bounds are that display's
\* four numbers if they are finite with a positive width and height and are null
\* otherwise, and in both cases a capture that starts once the enumeration has
\* settled calls screenshot() with the selected display's id.
C30_BoundsValid ==
  /\ []BoundsValid
  /\ [][ (Len(captures') > Len(captures) /\ listDisplays = "none" /\ displayResolved) =>
           captures'[Len(captures')].displayId = resolvedDisplayId ]_vars

\* Display "5" has a negative width: it is selected, the bounds are null and the
\* capture is made of display "5".
C30_Witness ==
  /\ Last("timer") /\ resolvedDisplayId = <<"5">> /\ resolvedDisplayBounds = None
  /\ listDisplays = "none"
  /\ Len(captures) = 1 /\ captures[1].pc = "screenshot" /\ captures[1].displayId = <<"5">>

\* C38: once the enumeration has settled, every capture that has called
\* screenshot() called it with the display id the enumeration resolved.
C38_SameDisplayId ==
  (displayResolved /\ listDisplays = "none") =>
    \A k \in 1..Len(captures) :
      captures[k].pc = "screenshot" => captures[k].displayId = resolvedDisplayId

----------------------------------------------------------------------------
(* The bridge script's coordinate mapping: windowsInputBridge.ps1 30-35 and *)
(* 97-121.  A normalized coordinate is a ratio [num, den] with den > 0; the *)
(* values used are multiples of 1/4, which a double holds exactly.          *)

Ratio(num, den) == [num |-> num, den |-> den]

\* Clamp-01
Clamp01(value) ==
  IF value.num < 0 THEN Ratio(0, 1)
  ELSE IF value.num > value.den THEN Ratio(1, 1)
  ELSE value

\* [Math]::Round of num / den as it would be if it dropped the fraction.
MathRound_Truncates(num, den) == num \div den

\* [Math]::Round of num / den (den > 0): to the nearest integer, and a midpoint to
\* the even neighbour (MidpointRounding.ToEven is the default of .NET).
MathRound(num, den) ==
  LET floor == num \div den
      twiceRest == 2 * (num % den)
  IN IF twiceRest < den THEN floor
     ELSE IF twiceRest > den THEN floor + 1
     ELSE IF floor % 2 = 0 THEN floor ELSE floor + 1

\* [System.Windows.Forms.Screen]::PrimaryScreen.Bounds, used when the script has
\* no display bounds.
PrimaryScreenBounds == [left |-> 0, top |-> 0, width |-> 1920, height |-> 1080]

\* Get-ScreenCoordinates with $script:DisplayBounds = displayBounds.
GetScreenCoordinates(displayBounds, XNorm, YNorm) ==
  LET bounds == IF displayBounds # None THEN displayBounds[1] ELSE PrimaryScreenBounds
      cx == Clamp01(XNorm)
      cy == Clamp01(YNorm)
      x == MathRound(bounds.left * cx.den + cx.num * Max(1, bounds.width - 1), cx.den)
      y == MathRound(bounds.top * cy.den + cy.num * Max(1, bounds.height - 1), cy.den)
  IN <<x, y>>

\* The bounds of the displays the agent resolved and handed to the script.
CoordBounds ==
  { [left |-> 100, top |-> 50, width |-> 1920, height |-> 1080],
    [left |-> 0, top |-> 0, width |-> 1, height |-> 1],
    [left |-> 0 - 1280, top |-> 0, width |-> 1280, height |-> 1024],
    [left |-> 0, top |-> 0, width |-> 2, height |-> 3] }

CoordValues == { Ratio(n, 4) : n \in { 0 - 2, 0, 1, 2, 3, 4, 6 } }

\* The agent after start-up on Windows: the display is resolved with valid bounds
\* and the bridge runs with them.
InitCoord ==
  /\ config = ResolveConfig(DefaultEnv)
  /\ now = BootTime
  /\ activeSessionId = EmptyString
  /\ captureTimer = NoTimer
  /\ captureLoopRunning = FALSE
  /\ captureInProgress = FALSE
  /\ inputBridge = Some(SpawnedBridge)
  /\ inputBridgeStopping = FALSE
  /\ resolvedDisplayId = <<"1">>
  /\ resolvedDisplayBounds \in { Some(b) : b \in CoordBounds }
  /\ displayResolved = TRUE
  /\ lastInputAt = 0
  /\ lastTypingAt = 0
  /\ slowCaptureBackoffUntil = 0
  /\ timers = <<>>
  /\ captures = <<>>
  /\ listDisplays = "none"
  /\ bridgeStart = "done"
  /\ effectiveFps = 0
  /\ lastEvent = Event("boot")
  /\ socketOut = <<>>
  /\ bridgeOut = <<>>
  /\ processExited = FALSE
  /\ cursorPos = None

\* The script reads a line with an event that has x and y: Move-Cursor.
MoveCursor(XNorm, YNorm) ==
  /\ cursorPos' = Some(GetScreenCoordinates(resolvedDisplayBounds, XNorm, YNorm))
  /\ lastEvent' = [Event("move-cursor") EXCEPT
                     !.event = Some([type |-> "move", x |-> XNorm, y |-> YNorm])]
  /\ UNCHANGED <<config, now, activeSessionId, captureTimer, captureLoopRunning,
                 captureInProgress, inputBridge, inputBridgeStopping, resolvedDisplayId,
                 resolvedDisplayBounds, displayResolved, lastInputAt, lastTypingAt,
                 slowCaptureBackoffUntil, timers, captures, listDisplays, bridgeStart,
                 effectiveFps, socketOut, bridgeOut, processExited>>

NextCoord == \E XNorm \in CoordValues, YNorm \in CoordValues : MoveCursor(XNorm, YNorm)

SpecCoord == InitCoord /\ [][NextCoord]_vars

\* The last step moved the cursor for the event (1/2, 1/2) on the display
\* {left: 100, top: 50, width: 1920, height: 1080}.
CentreOfExampleDisplay ==
  /\ Last("move-cursor")
  /\ lastEvent.event[1].x = Ratio(2, 4) /\ lastEvent.event[1].y = Ratio(2, 4)
  /\ resolvedDisplayBounds =
       Some([left |-> 100, top |-> 50, width |-> 1920, height |-> 1080])

\* C21 as claimed: the event (0.5, 0.5) on that display moves the cursor to
\* (1059, 589).
C21_CentrePixelClaimed == CentreOfExampleDisplay => cursorPos = Some(<<1059, 589>>)

\* C21 as amended: the event (0.5, 0.5) on that display moves the cursor to
\* (1060, 590): 100 + 0.5 * 1919 = 1059.5 and 50 + 0.5 * 1079 = 589.5 are rounded
\* to their even neighbours.
C21_CentrePixel == CentreOfExampleDisplay => cursorPos = Some(<<1060, 590>>)

C21_Witness == CentreOfExampleDisplay /\ cursorPos = Some(<<1060, 590>>)

\* C40: whatever the coordinates of the event, the cursor is moved to a pixel of
\* the display: left <= x <= left + width - 1 and top <= y <= top + height - 1.
C40_PixelInsideDisplay ==
  cursorPos # None =>
    LET bounds == resolvedDisplayBounds[1]
    IN /\ bounds.left <= cursorPos[1][1]
       /\ cursorPos[1][1] <= bounds.left + bounds.width - 1
       /\ bounds.top <= cursorPos[1][2]
       /\ cursorPos[1][2] <= bounds.top + bounds.height - 1

====
